---- MODULE Spec2Model ----
(***************************************************************************)
(* Model of the fee-collector indexer: IndexerOrchestrator.start/stop,     *)
(* EventStorage (saveEvents, getLastProcessedBlock,                        *)
(* updateLastProcessedBlock) and EventFetcher.fetchEvents.                 *)
(*                                                                         *)
(* JavaScript runs the code between two awaits atomically; every await is  *)
(* one action of the model (the completion of the awaited call), and the   *)
(* synchronous loop heads (while conditions) are actions of their own that *)
(* touch no shared state except where the source does.                     *)
(***************************************************************************)
EXTENDS Integers, Naturals, Sequences, FiniteSets, Bags, TLC

(***************************************************************************)
(* Bounds of the model.                                                    *)
(***************************************************************************)
MaxHead == 4
MaxChunkSize == 2
MaxFinalityDepth == 1
MaxRetriesBound == 2
MaxStarts == 2
MaxFailures == 2
NumLoops == 2
MaxBatch == 2
AddrLen == 2

\* `null` of getLastProcessedBlock and `undefined` of the optional config fields
Null == -1
Undefined == -1

\* maxRetries when the configuration leaves it out
DefaultMaxRetries == 10

\* the chain the orchestrator under study indexes, and another chain of the store
ChainId == 137
OtherChainId == 1
ChainIds == {ChainId, OtherChainId}

Loops == 1..NumLoops

Min(a, b) == IF a <= b THEN a ELSE b

(***************************************************************************)
(* The configurations an orchestrator is constructed with.                 *)
(***************************************************************************)
EndBlocks == {Undefined, 2}

\* a configuration as main() passes it: continuous mode, maxRetries not given
DefaultRetriesConfig ==
  [chainId |-> ChainId, startBlock |-> 3, endBlock |-> Undefined,
   chunkSize |-> MaxChunkSize, finalityDepth |-> 0, maxRetries |-> Undefined]

Configs ==
  [chainId : {ChainId},
   startBlock : {1, 3},
   endBlock : EndBlocks,
   chunkSize : 1..MaxChunkSize,
   finalityDepth : 0..MaxFinalityDepth,
   maxRetries : 0..MaxRetriesBound]
  \cup {DefaultRetriesConfig}

\* the failures a run is given: with the default budget, enough to exhaust it once
MaxFailuresOf(cfg) ==
  IF cfg.maxRetries = Undefined THEN DefaultMaxRetries + 1 ELSE MaxFailures

\* mutant of MaxRetriesOf: the default replaces every falsy value (|| for ??)
MaxRetriesOfFalsy(cfg) ==
  IF cfg.maxRetries \in {Undefined, 0} THEN DefaultMaxRetries ELSE cfg.maxRetries

\* this.maxRetries = config.maxRetries ?? 10
MaxRetriesOf(cfg) ==
  IF cfg.maxRetries = Undefined THEN DefaultMaxRetries ELSE cfg.maxRetries

(***************************************************************************)
(* The chain: block b carries LogsIn(b) FeesCollected logs.  fetchEvents   *)
(* is deterministic: the same range yields the same events.                *)
(***************************************************************************)
LogsIn(b) == b % 3

EventsOfBlock(chain, b) ==
  { [chainId |-> chain, blockNumber |-> b, transactionHash |-> b, logIndex |-> i,
     integratorFee |-> 0] :
      i \in 0..(LogsIn(b) - 1) }

FetchResult(chain, from, to) ==
  UNION { EventsOfBlock(chain, b) : b \in from..to }

\* Events given to the store directly: one event, and the events that differ from
\* it in one component of the key, each with two values of a field outside the key
BaseEvent ==
  [chainId |-> ChainId, blockNumber |-> 1, transactionHash |-> 1, logIndex |-> 0,
   integratorFee |-> 0]

KeyVariants ==
  {BaseEvent,
   [BaseEvent EXCEPT !.chainId = OtherChainId],
   [BaseEvent EXCEPT !.blockNumber = 2],
   [BaseEvent EXCEPT !.transactionHash = 2],
   [BaseEvent EXCEPT !.logIndex = 1]}

EventInputs == { [k EXCEPT !.integratorFee = f] : k \in KeyVariants, f \in {0, 1} }

EventArrays == UNION { [1..n -> EventInputs] : n \in 0..MaxBatch }

VARIABLES
  config,             \* IndexerOrchestratorConfig of the orchestrator object
  running,            \* IndexerOrchestrator.running
  pc,                 \* per invocation of start(): the await it is suspended at
  fromBlock,          \* start(): let fromBlock
  currentBlock,       \* start(): const currentBlock
  targetBlock,        \* start(): let targetBlock
  processedUpTo,      \* start(): let processedUpTo
  toBlock,            \* start(): const toBlock
  retryCount,         \* start(): let retryCount
  success,            \* start(): let success
  events,             \* start(): const events
  attempts,           \* calls of fetchEvents made for the chunk being processed
  indexerStates,      \* indexer_states: the IndexerState documents
  storedEvents,       \* fee_collected_events: the stored documents' keys
  chainHead,          \* the height of the chain when getBlockNumber last read it
  alerts,             \* bag of the [CIRCUIT_BREAKER_ALERT] lines logged
  starts,             \* number of start() calls that entered the loop
  failures            \* number of chunk attempts that failed

locals == <<pc, fromBlock, currentBlock, targetBlock, processedUpTo, toBlock,
            retryCount, success, events, attempts>>
store == <<indexerStates, storedEvents>>
vars == <<config, running, locals, store, chainHead, alerts, starts, failures>>

Idle == [l \in Loops |-> "idle"]
NoBlock == [l \in Loops |-> Null]
Zero == [l \in Loops |-> 0]
NoSuccess == [l \in Loops |-> FALSE]
NoEvents == [l \in Loops |-> {}]

Init ==
  /\ config \in Configs
  /\ running = FALSE
  /\ pc = Idle
  /\ fromBlock = NoBlock
  /\ currentBlock = NoBlock
  /\ targetBlock = NoBlock
  /\ processedUpTo = NoBlock
  /\ toBlock = NoBlock
  /\ retryCount = Zero
  /\ success = NoSuccess
  /\ events = NoEvents
  /\ attempts = Zero
  /\ indexerStates = {}
  /\ storedEvents = {}
  /\ chainHead = 0
  /\ alerts = EmptyBag
  /\ starts = 0
  /\ failures = 0

chain == config.chainId
maxRetries == MaxRetriesOf(config)

\* start() is not executing: never called, returned, or rejected (by a failed read
\* of the watermark, or as 'Orchestrator already running')
Terminal == {"idle", "done", "rejected", "alreadyRunning"}
Active(l) == pc[l] \notin Terminal

\* Between two awaits an invocation runs to completion: while it is at a loop head
\* (not suspended at an await) no other code of the process runs.
LoopHeads == {"loop", "chunk", "retry"}
Suspended(l) == pc[l] \notin LoopHeads
OthersSuspended(l) == \A m \in Loops \ {l} : Suspended(m)
AllSuspended == \A m \in Loops : Suspended(m)

\* the locals of invocation l, as they are when start() is not executing its loop
ResetLocals(l, p) ==
  /\ pc' = [pc EXCEPT ![l] = p]
  /\ fromBlock' = [fromBlock EXCEPT ![l] = Null]
  /\ currentBlock' = [currentBlock EXCEPT ![l] = Null]
  /\ targetBlock' = [targetBlock EXCEPT ![l] = Null]
  /\ processedUpTo' = [processedUpTo EXCEPT ![l] = Null]
  /\ toBlock' = [toBlock EXCEPT ![l] = Null]
  /\ retryCount' = [retryCount EXCEPT ![l] = 0]
  /\ success' = [success EXCEPT ![l] = FALSE]
  /\ events' = [events EXCEPT ![l] = {}]
  /\ attempts' = [attempts EXCEPT ![l] = 0]

(***************************************************************************)
(* EventStorage                                                            *)
(***************************************************************************)
\* the unique index (chainId, blockNumber, transactionHash, logIndex) of the collection
EventKey(e) == <<e.chainId, e.blockNumber, e.transactionHash, e.logIndex>>

\* the documents of a batch in the order fetchEvents returns them
Precedes(e, d) ==
  \/ e.blockNumber < d.blockNumber
  \/ e.blockNumber = d.blockNumber /\ e.logIndex <= d.logIndex

\* mutant of InsertMany: an ordered insert stops at the first duplicate key
InsertManyOrdered(stored, docs) ==
  stored \cup { d \in docs :
                  \A e \in docs : Precedes(e, d) =>
                    \A s \in stored : EventKey(s) # EventKey(e) }

\* the events of a fetch as the array fetchEvents returns: by block, then log index
RECURSIVE InFetchOrder(_)
InFetchOrder(docs) ==
  IF docs = {}
    THEN << >>
    ELSE LET first == CHOOSE d \in docs : \A e \in docs : Precedes(d, e)
         IN  <<first>> \o InFetchOrder(docs \ {first})

\* mutant of InsertDocuments: the collection has no unique index
InsertDocumentsNoIndex(stored, documents) ==
  stored \cup { documents[i] : i \in 1..Len(documents) }

\* the collection under insertMany(documents, {ordered: false}): the documents are
\* tried one by one, a document whose key is taken is rejected by the unique index
\* and the others are still inserted
RECURSIVE InsertDocuments(_, _)
InsertDocuments(stored, documents) ==
  IF documents = << >>
    THEN stored
    ELSE LET d == Head(documents)
         IN  InsertDocuments(IF \E s \in stored : EventKey(s) = EventKey(d)
                               THEN stored
                               ELSE stored \cup {d},
                             Tail(documents))

\* the code of a duplicate-key write error
DuplicateKeyCode == 11000

\* the code of the error insertMany rejects with, 0 when it resolves: the unique
\* index is the only source of errors of a reachable database
RECURSIVE InsertManyErrorCode(_, _)
InsertManyErrorCode(stored, documents) ==
  IF documents = << >>
    THEN 0
    ELSE LET d == Head(documents)
         IN  IF \E s \in stored : EventKey(s) = EventKey(d)
               THEN DuplicateKeyCode
               ELSE InsertManyErrorCode(stored \cup {d}, Tail(documents))

\* mutant of SaveEventsThrows: the catch rethrows every error, duplicate keys included
SaveEventsRethrowsDuplicates(stored, evs) ==
  /\ evs # << >>
  /\ InsertManyErrorCode(stored, evs) # 0

\* saveEvents(events) rejects: only an error other than the duplicate-key error is rethrown
SaveEventsThrows(stored, evs) ==
  /\ evs # << >>
  /\ InsertManyErrorCode(stored, evs) \notin {0, DuplicateKeyCode}

\* saveEvents(events) on an array: nothing to do for an empty one, otherwise insertMany
SaveEventsArray(stored, evs) ==
  IF evs = << >> THEN stored ELSE InsertDocuments(stored, evs)

\* insertMany on the events of one fetch; the duplicate-key error 11000 is swallowed
InsertMany(stored, docs) == InsertDocuments(stored, InFetchOrder(docs))

\* mutant of SaveEvents: the insert is not awaited and its batch is lost
SaveEventsDropsBatch(stored, evs) == stored

SaveEvents(stored, evs) ==
  IF evs = {} THEN stored ELSE InsertMany(stored, evs)

\* an IndexerState document
IndexerState(c, blockNumber) == [chainId |-> c, lastProcessedBlock |-> blockNumber]

\* stateModel.findOne({ chainId }): the document found, as a set of at most one
FindOne(c) ==
  LET matching == { s \in indexerStates : s.chainId = c }
  IN  IF matching = {} THEN {} ELSE {CHOOSE s \in matching : TRUE}

\* state?.lastProcessedBlock ?? null
GetLastProcessedBlock(c) ==
  IF FindOne(c) = {}
    THEN Null
    ELSE (CHOOSE state \in FindOne(c) : TRUE).lastProcessedBlock

\* mutant of UpdateLastProcessedBlock: the update has no chainId filter
UpdateLastProcessedBlockAllChains(c, blockNumber) ==
  { IndexerState(d, blockNumber) : d \in ChainIds }

\* mutant of UpdateLastProcessedBlock: the document is inserted, never updated
UpdateLastProcessedBlockInserts(c, blockNumber) ==
  indexerStates \cup {IndexerState(c, blockNumber)}

\* findOneAndUpdate({ chainId }, { lastProcessedBlock }, { upsert: true }): the
\* document found is updated, and one is inserted when none is found
UpdateLastProcessedBlock(c, blockNumber) ==
  IF FindOne(c) = {}
    THEN indexerStates \cup {IndexerState(c, blockNumber)}
    ELSE (indexerStates \ FindOne(c))
           \cup { [state EXCEPT !.lastProcessedBlock = blockNumber] :
                    state \in FindOne(c) }

(***************************************************************************)
(* IndexerOrchestrator.start: the target block of a cycle                  *)
(***************************************************************************)
\* mutant of TargetBlockOf: a configured endBlock is ignored
TargetBlockIgnoresEndBlock(cfg, cur) == cur - cfg.finalityDepth

\* mutant of TargetBlockOf: without endBlock the target is the height itself
TargetBlockAtTip(cfg, cur) ==
  IF cfg.endBlock # Undefined
    THEN LET cappedEndBlock == Min(cfg.endBlock, cur)
         IN  IF cappedEndBlock >= cur - cfg.finalityDepth
               THEN cur - cfg.finalityDepth
               ELSE cappedEndBlock
    ELSE cur

\* mutant of TargetBlockOf: a configured endBlock is used without the near-tip rule
TargetBlockNoFinalityWhenBounded(cfg, cur) ==
  IF cfg.endBlock # Undefined
    THEN Min(cfg.endBlock, cur)
    ELSE cur - cfg.finalityDepth

TargetBlockOf(cfg, cur) ==
  IF cfg.endBlock # Undefined
    THEN LET cappedEndBlock == Min(cfg.endBlock, cur)
         IN  IF cappedEndBlock >= cur - cfg.finalityDepth
               THEN cur - cfg.finalityDepth
               ELSE cappedEndBlock
    ELSE cur - cfg.finalityDepth

\* mutant of ChunkEnd: the chunk is not capped at the target block
ChunkEndUncapped(cfg, from, target) == from + cfg.chunkSize - 1

ChunkEnd(cfg, from, target) == Min(from + cfg.chunkSize - 1, target)

(***************************************************************************)
(* start(): entry                                                          *)
(***************************************************************************)
Start(l) ==
  /\ AllSuspended
  /\ pc[l] \in Terminal
  /\ starts < MaxStarts
  /\ ~running                      \* otherwise: throw 'Orchestrator already running'
  /\ running' = TRUE
  /\ ResetLocals(l, "init")
  /\ starts' = starts + 1
  /\ UNCHANGED <<config, store, chainHead, alerts, failures>>

\* mutant of StartAlreadyRunning: the rejected call clears the flag on its way out
StartAlreadyRunningClearsFlag(l) ==
  /\ AllSuspended
  /\ pc[l] \in Terminal
  /\ running
  /\ running' = FALSE
  /\ ResetLocals(l, "alreadyRunning")
  /\ UNCHANGED <<config, store, chainHead, alerts, starts, failures>>

\* if (this.running) throw new Error('Orchestrator already running')
StartAlreadyRunning(l) ==
  /\ AllSuspended
  /\ pc[l] \in Terminal
  /\ running
  /\ ResetLocals(l, "alreadyRunning")
  /\ UNCHANGED <<config, running, store, chainHead, alerts, starts, failures>>

\* mutant of ReadWatermark: the stored state is ignored and the configured start block used
ReadWatermarkIgnoresState(l) ==
  /\ OthersSuspended(l)
  /\ pc[l] = "init"
  /\ fromBlock' = [fromBlock EXCEPT ![l] = config.startBlock]
  /\ pc' = [pc EXCEPT ![l] = "loop"]
  /\ UNCHANGED <<config, running, currentBlock, targetBlock, processedUpTo, toBlock,
                 retryCount, success, events, attempts, store, chainHead, alerts,
                 starts, failures>>

\* mutant of ReadWatermark: || instead of ??, a stored 0 falls back to the start block
ReadWatermarkZeroIsAbsent(l) ==
  /\ OthersSuspended(l)
  /\ pc[l] = "init"
  /\ LET stored == GetLastProcessedBlock(chain)
     IN  fromBlock' = [fromBlock EXCEPT ![l] =
                         IF stored # Null /\ stored # 0 THEN stored ELSE config.startBlock]
  /\ pc' = [pc EXCEPT ![l] = "loop"]
  /\ UNCHANGED <<config, running, currentBlock, targetBlock, processedUpTo, toBlock,
                 retryCount, success, events, attempts, store, chainHead, alerts,
                 starts, failures>>

\* await storage.getLastProcessedBlock(chainId) ?? config.startBlock
ReadWatermark(l) ==
  /\ OthersSuspended(l)
  /\ pc[l] = "init"
  /\ LET stored == GetLastProcessedBlock(chain)
     IN  fromBlock' = [fromBlock EXCEPT ![l] =
                         IF stored # Null THEN stored ELSE config.startBlock]
  /\ pc' = [pc EXCEPT ![l] = "loop"]
  /\ UNCHANGED <<config, running, currentBlock, targetBlock, processedUpTo, toBlock,
                 retryCount, success, events, attempts, store, chainHead, alerts,
                 starts, failures>>

\* getLastProcessedBlock throws: start() rejects, outside of any try
ReadWatermarkFail(l) ==
  /\ OthersSuspended(l)
  /\ pc[l] = "init"
  /\ ResetLocals(l, "rejected")
  /\ UNCHANGED <<config, running, store, chainHead, alerts, starts, failures>>

\* mutant of LoopCheck: the loop does not test the flag
LoopCheckIgnoresStop(l) ==
  /\ OthersSuspended(l)
  /\ pc[l] = "loop"
  /\ pc' = [pc EXCEPT ![l] = "height"]
  /\ UNCHANGED <<config, running, fromBlock, currentBlock, targetBlock, processedUpTo,
                 toBlock, retryCount, success, events, attempts, store, chainHead,
                 alerts, starts, failures>>

\* while (this.running)
LoopCheck(l) ==
  /\ OthersSuspended(l)
  /\ pc[l] = "loop"
  /\ IF running
       THEN /\ pc' = [pc EXCEPT ![l] = "height"]
            /\ UNCHANGED <<fromBlock, currentBlock, targetBlock, processedUpTo, toBlock,
                           retryCount, success, events, attempts>>
       ELSE ResetLocals(l, "done")
  /\ UNCHANGED <<config, running, store, chainHead, alerts, starts, failures>>

\* mutant of GetBlockNumber: the caught-up test is off by one (>= instead of >)
GetBlockNumberStopsEarly(l) ==
  /\ OthersSuspended(l)
  /\ pc[l] = "height"
  /\ \E cur \in chainHead..MaxHead :
       LET target == TargetBlockOf(config, cur)
       IN  /\ chainHead' = cur
           /\ IF fromBlock[l] >= target
                 THEN IF config.endBlock # Undefined
                        THEN /\ running' = FALSE
                             /\ ResetLocals(l, "done")
                        ELSE /\ currentBlock' = [currentBlock EXCEPT ![l] = cur]
                             /\ targetBlock' = [targetBlock EXCEPT ![l] = target]
                             /\ pc' = [pc EXCEPT ![l] = "poll"]
                             /\ UNCHANGED <<running, fromBlock, processedUpTo, toBlock,
                                            retryCount, success, events, attempts>>
                 ELSE /\ currentBlock' = [currentBlock EXCEPT ![l] = cur]
                      /\ targetBlock' = [targetBlock EXCEPT ![l] = target]
                      /\ processedUpTo' = [processedUpTo EXCEPT ![l] = fromBlock[l]]
                      /\ pc' = [pc EXCEPT ![l] = "chunk"]
                      /\ UNCHANGED <<running, fromBlock, toBlock, retryCount, success,
                                     events, attempts>>
  /\ UNCHANGED <<config, store, alerts, starts, failures>>

\* mutant of GetBlockNumber: a caught-up loop waits and polls again in bounded mode too
GetBlockNumberNeverFinishes(l) ==
  /\ OthersSuspended(l)
  /\ pc[l] = "height"
  /\ \E cur \in chainHead..MaxHead :
       LET target == TargetBlockOf(config, cur)
       IN  /\ chainHead' = cur
           /\ IF fromBlock[l] > target
                 THEN /\ currentBlock' = [currentBlock EXCEPT ![l] = cur]
                      /\ targetBlock' = [targetBlock EXCEPT ![l] = target]
                      /\ pc' = [pc EXCEPT ![l] = "poll"]
                      /\ UNCHANGED <<running, fromBlock, processedUpTo, toBlock,
                                     retryCount, success, events, attempts>>
                 ELSE /\ currentBlock' = [currentBlock EXCEPT ![l] = cur]
                      /\ targetBlock' = [targetBlock EXCEPT ![l] = target]
                      /\ processedUpTo' = [processedUpTo EXCEPT ![l] = fromBlock[l]]
                      /\ pc' = [pc EXCEPT ![l] = "chunk"]
                      /\ UNCHANGED <<running, fromBlock, toBlock, retryCount, success,
                                     events, attempts>>
  /\ UNCHANGED <<config, store, alerts, starts, failures>>

\* await provider.getBlockNumber(), the target block, and the caught-up branch.
\* The chain is append-only and is observed here only: the height read is any
\* height from the last one read on.
GetBlockNumber(l) ==
  /\ OthersSuspended(l)
  /\ pc[l] = "height"
  /\ \E cur \in chainHead..MaxHead :
       LET target == TargetBlockOf(config, cur)
       IN  /\ chainHead' = cur
           /\ IF fromBlock[l] > target
                 THEN IF config.endBlock # Undefined
                        THEN /\ running' = FALSE
                             /\ ResetLocals(l, "done")
                        ELSE /\ currentBlock' = [currentBlock EXCEPT ![l] = cur]
                             /\ targetBlock' = [targetBlock EXCEPT ![l] = target]
                             /\ pc' = [pc EXCEPT ![l] = "poll"]
                             /\ UNCHANGED <<running, fromBlock, processedUpTo, toBlock,
                                            retryCount, success, events, attempts>>
                 ELSE /\ currentBlock' = [currentBlock EXCEPT ![l] = cur]
                      /\ targetBlock' = [targetBlock EXCEPT ![l] = target]
                      /\ processedUpTo' = [processedUpTo EXCEPT ![l] = fromBlock[l]]
                      /\ pc' = [pc EXCEPT ![l] = "chunk"]
                      /\ UNCHANGED <<running, fromBlock, toBlock, retryCount, success,
                                     events, attempts>>
  /\ UNCHANGED <<config, store, alerts, starts, failures>>

\* mutant of GetBlockNumberFail: the error of the height query is not caught and
\* start() rejects
GetBlockNumberFailRejects(l) ==
  /\ OthersSuspended(l)
  /\ pc[l] = "height"
  /\ ResetLocals(l, "rejected")
  /\ UNCHANGED <<config, running, store, chainHead, alerts, starts, failures>>

\* getBlockNumber throws: the outer catch, then await sleep(5000)
GetBlockNumberFail(l) ==
  /\ OthersSuspended(l)
  /\ pc[l] = "height"
  /\ pc' = [pc EXCEPT ![l] = "cycleBackoff"]
  /\ UNCHANGED <<config, running, fromBlock, currentBlock, targetBlock, processedUpTo,
                 toBlock, retryCount, success, events, attempts, store, chainHead,
                 alerts, starts, failures>>

\* mutant of Sleep: after the wait the next cycle begins without testing the flag
SleepResumesCycle(l) ==
  /\ OthersSuspended(l)
  /\ pc[l] \in {"poll", "cycleBackoff"}
  /\ pc' = [pc EXCEPT ![l] = "height"]
  /\ currentBlock' = [currentBlock EXCEPT ![l] = Null]
  /\ targetBlock' = [targetBlock EXCEPT ![l] = Null]
  /\ UNCHANGED <<config, running, fromBlock, processedUpTo, toBlock, retryCount,
                 success, events, attempts, store, chainHead, alerts, starts, failures>>

\* the sleeps of the cycle level: sleep(pollInterval) when caught up, sleep(5000) after an error
Sleep(l) ==
  /\ OthersSuspended(l)
  /\ pc[l] \in {"poll", "cycleBackoff"}
  /\ pc' = [pc EXCEPT ![l] = "loop"]
  /\ currentBlock' = [currentBlock EXCEPT ![l] = Null]
  /\ targetBlock' = [targetBlock EXCEPT ![l] = Null]
  /\ UNCHANGED <<config, running, fromBlock, processedUpTo, toBlock, retryCount,
                 success, events, attempts, store, chainHead, alerts, starts, failures>>

(***************************************************************************)
(* start(): the chunks of a cycle                                          *)
(***************************************************************************)
\* mutant of ChunkCheck: the next cycle begins at the last block of this one
ChunkCheckResumesAtLastBlock(l) ==
  /\ OthersSuspended(l)
  /\ pc[l] = "chunk"
  /\ IF processedUpTo[l] <= targetBlock[l]
       THEN /\ toBlock' = [toBlock EXCEPT ![l] =
                             ChunkEnd(config, processedUpTo[l], targetBlock[l])]
            /\ retryCount' = [retryCount EXCEPT ![l] = 0]
            /\ success' = [success EXCEPT ![l] = FALSE]
            /\ attempts' = [attempts EXCEPT ![l] = 0]
            /\ pc' = [pc EXCEPT ![l] = "retry"]
            /\ UNCHANGED <<fromBlock, currentBlock, targetBlock, processedUpTo, events>>
       ELSE /\ fromBlock' = [fromBlock EXCEPT ![l] = processedUpTo[l] - 1]
            /\ currentBlock' = [currentBlock EXCEPT ![l] = Null]
            /\ targetBlock' = [targetBlock EXCEPT ![l] = Null]
            /\ processedUpTo' = [processedUpTo EXCEPT ![l] = Null]
            /\ toBlock' = [toBlock EXCEPT ![l] = Null]
            /\ retryCount' = [retryCount EXCEPT ![l] = 0]
            /\ success' = [success EXCEPT ![l] = FALSE]
            /\ attempts' = [attempts EXCEPT ![l] = 0]
            /\ pc' = [pc EXCEPT ![l] = "loop"]
            /\ UNCHANGED events
  /\ UNCHANGED <<config, running, store, chainHead, alerts, starts, failures>>

\* mutant of ChunkCheck: the chunk loop also tests the running flag
ChunkCheckHonoursStop(l) ==
  /\ OthersSuspended(l)
  /\ pc[l] = "chunk"
  /\ IF running /\ processedUpTo[l] <= targetBlock[l]
       THEN /\ toBlock' = [toBlock EXCEPT ![l] =
                             ChunkEnd(config, processedUpTo[l], targetBlock[l])]
            /\ retryCount' = [retryCount EXCEPT ![l] = 0]
            /\ success' = [success EXCEPT ![l] = FALSE]
            /\ attempts' = [attempts EXCEPT ![l] = 0]
            /\ pc' = [pc EXCEPT ![l] = "retry"]
            /\ UNCHANGED <<fromBlock, currentBlock, targetBlock, processedUpTo, events>>
       ELSE /\ fromBlock' = [fromBlock EXCEPT ![l] = processedUpTo[l]]
            /\ currentBlock' = [currentBlock EXCEPT ![l] = Null]
            /\ targetBlock' = [targetBlock EXCEPT ![l] = Null]
            /\ processedUpTo' = [processedUpTo EXCEPT ![l] = Null]
            /\ toBlock' = [toBlock EXCEPT ![l] = Null]
            /\ retryCount' = [retryCount EXCEPT ![l] = 0]
            /\ success' = [success EXCEPT ![l] = FALSE]
            /\ attempts' = [attempts EXCEPT ![l] = 0]
            /\ pc' = [pc EXCEPT ![l] = "loop"]
            /\ UNCHANGED events
  /\ UNCHANGED <<config, running, store, chainHead, alerts, starts, failures>>

\* while (processedUpTo <= targetBlock), and after it: fromBlock = processedUpTo
ChunkCheck(l) ==
  /\ OthersSuspended(l)
  /\ pc[l] = "chunk"
  /\ IF processedUpTo[l] <= targetBlock[l]
       THEN /\ toBlock' = [toBlock EXCEPT ![l] =
                             ChunkEnd(config, processedUpTo[l], targetBlock[l])]
            /\ retryCount' = [retryCount EXCEPT ![l] = 0]
            /\ success' = [success EXCEPT ![l] = FALSE]
            /\ attempts' = [attempts EXCEPT ![l] = 0]
            /\ pc' = [pc EXCEPT ![l] = "retry"]
            /\ UNCHANGED <<fromBlock, currentBlock, targetBlock, processedUpTo, events>>
       ELSE /\ fromBlock' = [fromBlock EXCEPT ![l] = processedUpTo[l]]
            /\ currentBlock' = [currentBlock EXCEPT ![l] = Null]
            /\ targetBlock' = [targetBlock EXCEPT ![l] = Null]
            /\ processedUpTo' = [processedUpTo EXCEPT ![l] = Null]
            /\ toBlock' = [toBlock EXCEPT ![l] = Null]
            /\ retryCount' = [retryCount EXCEPT ![l] = 0]
            /\ success' = [success EXCEPT ![l] = FALSE]
            /\ attempts' = [attempts EXCEPT ![l] = 0]
            /\ pc' = [pc EXCEPT ![l] = "loop"]
            /\ UNCHANGED events
  /\ UNCHANGED <<config, running, store, chainHead, alerts, starts, failures>>

\* the line logged by the circuit breaker, as the values its message carries:
\* "Failed to process blocks from-to after n attempts. ... backfill blocks from-to"
Alert(from, to, n) == [from |-> from, to |-> to, attempts |-> n]

\* mutant of RetryCheck: the retry condition is off by one (<= instead of <)
RetryCheckOffByOne(l) ==
  /\ OthersSuspended(l)
  /\ pc[l] = "retry"
  /\ IF retryCount[l] <= maxRetries /\ ~success[l]
       THEN /\ pc' = [pc EXCEPT ![l] = "fetch"]
            /\ UNCHANGED <<processedUpTo, alerts>>
       ELSE /\ pc' = [pc EXCEPT ![l] = "chunk"]
            /\ IF ~success[l]
                 THEN /\ alerts' = alerts (+)
                                     SetToBag({Alert(processedUpTo[l], toBlock[l], maxRetries)})
                      /\ processedUpTo' = [processedUpTo EXCEPT ![l] = toBlock[l] + 1]
                 ELSE UNCHANGED <<processedUpTo, alerts>>
  /\ UNCHANGED <<config, running, fromBlock, currentBlock, targetBlock, toBlock,
                 retryCount, success, events, attempts, store, chainHead, starts,
                 failures>>

\* mutant of RetryCheck: an exhausted chunk is skipped without the alert
RetryCheckSilentSkip(l) ==
  /\ OthersSuspended(l)
  /\ pc[l] = "retry"
  /\ IF retryCount[l] < maxRetries /\ ~success[l]
       THEN /\ pc' = [pc EXCEPT ![l] = "fetch"]
            /\ UNCHANGED processedUpTo
       ELSE /\ pc' = [pc EXCEPT ![l] = "chunk"]
            /\ IF ~success[l]
                 THEN processedUpTo' = [processedUpTo EXCEPT ![l] = toBlock[l] + 1]
                 ELSE UNCHANGED processedUpTo
  /\ UNCHANGED <<config, running, fromBlock, currentBlock, targetBlock, toBlock,
                 retryCount, success, events, attempts, store, chainHead, alerts,
                 starts, failures>>

\* mutant of RetryCheck: after the alert the error is rethrown and start() rejects
RetryCheckRethrows(l) ==
  /\ OthersSuspended(l)
  /\ pc[l] = "retry"
  /\ IF retryCount[l] < maxRetries /\ ~success[l]
       THEN /\ pc' = [pc EXCEPT ![l] = "fetch"]
            /\ UNCHANGED <<fromBlock, currentBlock, targetBlock, processedUpTo, toBlock,
                           retryCount, success, events, attempts, alerts>>
       ELSE IF ~success[l]
              THEN /\ alerts' = alerts (+)
                                  SetToBag({Alert(processedUpTo[l], toBlock[l], maxRetries)})
                   /\ ResetLocals(l, "rejected")
              ELSE /\ pc' = [pc EXCEPT ![l] = "chunk"]
                   /\ UNCHANGED <<fromBlock, currentBlock, targetBlock, processedUpTo,
                                  toBlock, retryCount, success, events, attempts, alerts>>
  /\ UNCHANGED <<config, running, store, chainHead, starts, failures>>

\* mutant of RetryCheck: the circuit breaker also writes the watermark past the chunk
RetryCheckSkipWritesWatermark(l) ==
  /\ OthersSuspended(l)
  /\ pc[l] = "retry"
  /\ IF retryCount[l] < maxRetries /\ ~success[l]
       THEN /\ pc' = [pc EXCEPT ![l] = "fetch"]
            /\ UNCHANGED <<processedUpTo, alerts, indexerStates>>
       ELSE /\ pc' = [pc EXCEPT ![l] = "chunk"]
            /\ IF ~success[l]
                 THEN /\ alerts' = alerts (+)
                                     SetToBag({Alert(processedUpTo[l], toBlock[l], maxRetries)})
                      /\ processedUpTo' = [processedUpTo EXCEPT ![l] = toBlock[l] + 1]
                      /\ indexerStates' = UpdateLastProcessedBlock(chain, toBlock[l])
                 ELSE UNCHANGED <<processedUpTo, alerts, indexerStates>>
  /\ UNCHANGED <<config, running, fromBlock, currentBlock, targetBlock, toBlock,
                 retryCount, success, events, attempts, storedEvents, chainHead, starts,
                 failures>>

\* while (retryCount < this.maxRetries && !success), and after it the circuit breaker
RetryCheck(l) ==
  /\ OthersSuspended(l)
  /\ pc[l] = "retry"
  /\ IF retryCount[l] < maxRetries /\ ~success[l]
       THEN /\ pc' = [pc EXCEPT ![l] = "fetch"]
            /\ UNCHANGED <<processedUpTo, alerts>>
       ELSE /\ pc' = [pc EXCEPT ![l] = "chunk"]
            /\ IF ~success[l]
                 THEN /\ alerts' = alerts (+)
                                     SetToBag({Alert(processedUpTo[l], toBlock[l], maxRetries)})
                      /\ processedUpTo' = [processedUpTo EXCEPT ![l] = toBlock[l] + 1]
                 ELSE UNCHANGED <<processedUpTo, alerts>>
  /\ UNCHANGED <<config, running, fromBlock, currentBlock, targetBlock, toBlock,
                 retryCount, success, events, attempts, store, chainHead, starts, failures>>

\* mutant of CatchError: the catch sleeps after every failure, the last one included
CatchErrorAlwaysSleeps(l) ==
  /\ retryCount' = [retryCount EXCEPT ![l] = retryCount[l] + 1]
  /\ events' = [events EXCEPT ![l] = {}]
  /\ pc' = [pc EXCEPT ![l] = "retryBackoff"]

\* mutant of CatchError: the error of the last attempt escapes to the catch of the cycle
CatchErrorAbortsCycle(l) ==
  /\ retryCount' = [retryCount EXCEPT ![l] = retryCount[l] + 1]
  /\ events' = [events EXCEPT ![l] = {}]
  /\ pc' = [pc EXCEPT ![l] =
              IF retryCount[l] + 1 < maxRetries THEN "retryBackoff" ELSE "cycleBackoff"]

\* catch (error) of a chunk attempt: retryCount++, and sleep(5000) unless exhausted
CatchError(l) ==
  /\ retryCount' = [retryCount EXCEPT ![l] = retryCount[l] + 1]
  /\ events' = [events EXCEPT ![l] = {}]
  /\ pc' = [pc EXCEPT ![l] =
              IF retryCount[l] + 1 < maxRetries THEN "retryBackoff" ELSE "retry"]

\* the catch entered by a failure of the chain or of the database
Catch(l) ==
  /\ failures < MaxFailuresOf(config)
  /\ failures' = failures + 1
  /\ CatchError(l)

\* await sleep(5000) between two attempts of a chunk
RetryBackoff(l) ==
  /\ OthersSuspended(l)
  /\ pc[l] = "retryBackoff"
  /\ pc' = [pc EXCEPT ![l] = "retry"]
  /\ UNCHANGED <<config, running, fromBlock, currentBlock, targetBlock, processedUpTo,
                 toBlock, retryCount, success, events, attempts, store, chainHead,
                 alerts, starts, failures>>

\* await fetcher.fetchEvents(processedUpTo, toBlock) returns
FetchEvents(l) ==
  /\ OthersSuspended(l)
  /\ pc[l] = "fetch"
  /\ attempts' = [attempts EXCEPT ![l] = attempts[l] + 1]
  /\ events' = [events EXCEPT ![l] = FetchResult(chain, processedUpTo[l], toBlock[l])]
  /\ pc' = [pc EXCEPT ![l] = "save"]
  /\ UNCHANGED <<config, running, fromBlock, currentBlock, targetBlock, processedUpTo,
                 toBlock, retryCount, success, store, chainHead, alerts, starts, failures>>

\* fetchEvents throws (queryFilter, parseLog or getBlock failed)
FetchEventsFail(l) ==
  /\ OthersSuspended(l)
  /\ pc[l] = "fetch"
  /\ attempts' = [attempts EXCEPT ![l] = attempts[l] + 1]
  /\ Catch(l)
  /\ UNCHANGED <<config, running, fromBlock, currentBlock, targetBlock, processedUpTo,
                 toBlock, success, store, chainHead, alerts, starts>>

\* await storage.saveEvents(events) with the database available: it returns, unless
\* saveEvents rethrows what insertMany reported
SaveEventsStep(l) ==
  /\ OthersSuspended(l)
  /\ pc[l] = "save"
  /\ storedEvents' = SaveEvents(storedEvents, events[l])
  /\ IF SaveEventsThrows(storedEvents, InFetchOrder(events[l]))
       THEN CatchError(l)
       ELSE /\ pc' = [pc EXCEPT ![l] = "update"]
            /\ UNCHANGED <<retryCount, events>>
  /\ UNCHANGED <<config, running, fromBlock, currentBlock, targetBlock, processedUpTo,
                 toBlock, success, attempts, indexerStates, chainHead, alerts,
                 starts, failures>>

\* saveEvents throws an error other than 11000; the unordered insert may have
\* written any part of the batch before it
SaveEventsFail(l) ==
  /\ OthersSuspended(l)
  /\ pc[l] = "save"
  /\ events[l] # {}
  /\ \E part \in SUBSET events[l] : storedEvents' = InsertMany(storedEvents, part)
  /\ Catch(l)
  /\ UNCHANGED <<config, running, fromBlock, currentBlock, targetBlock, processedUpTo,
                 toBlock, success, attempts, indexerStates, chainHead, alerts,
                 starts>>

\* mutant of UpdateState: the chunk's lower bound is written as the watermark
UpdateStateWritesFrom(l) ==
  /\ OthersSuspended(l)
  /\ pc[l] = "update"
  /\ indexerStates' = UpdateLastProcessedBlock(chain, processedUpTo[l])
  /\ success' = [success EXCEPT ![l] = TRUE]
  /\ processedUpTo' = [processedUpTo EXCEPT ![l] = toBlock[l] + 1]
  /\ events' = [events EXCEPT ![l] = {}]
  /\ pc' = [pc EXCEPT ![l] = "retry"]
  /\ UNCHANGED <<config, running, fromBlock, currentBlock, targetBlock, toBlock,
                 retryCount, attempts, storedEvents, chainHead, alerts, starts, failures>>

\* mutant of UpdateState: the cycle's target is written as the watermark
UpdateStateWritesTarget(l) ==
  /\ OthersSuspended(l)
  /\ pc[l] = "update"
  /\ indexerStates' = UpdateLastProcessedBlock(chain, targetBlock[l])
  /\ success' = [success EXCEPT ![l] = TRUE]
  /\ processedUpTo' = [processedUpTo EXCEPT ![l] = toBlock[l] + 1]
  /\ events' = [events EXCEPT ![l] = {}]
  /\ pc' = [pc EXCEPT ![l] = "retry"]
  /\ UNCHANGED <<config, running, fromBlock, currentBlock, targetBlock, toBlock,
                 retryCount, attempts, storedEvents, chainHead, alerts, starts, failures>>

\* await storage.updateLastProcessedBlock(chainId, toBlock) returns; success = true
UpdateState(l) ==
  /\ OthersSuspended(l)
  /\ pc[l] = "update"
  /\ indexerStates' = UpdateLastProcessedBlock(chain, toBlock[l])
  /\ success' = [success EXCEPT ![l] = TRUE]
  /\ processedUpTo' = [processedUpTo EXCEPT ![l] = toBlock[l] + 1]
  /\ events' = [events EXCEPT ![l] = {}]
  /\ pc' = [pc EXCEPT ![l] = "retry"]
  /\ UNCHANGED <<config, running, fromBlock, currentBlock, targetBlock, toBlock,
                 retryCount, attempts, storedEvents, chainHead, alerts, starts, failures>>

\* mutant of UpdateStateFail: the attempt that fails has written the chunk's lower bound
UpdateStateFailWrites(l) ==
  /\ OthersSuspended(l)
  /\ pc[l] = "update"
  /\ Catch(l)
  /\ indexerStates' = UpdateLastProcessedBlock(chain, processedUpTo[l])
  /\ UNCHANGED <<config, running, fromBlock, currentBlock, targetBlock, processedUpTo,
                 toBlock, success, attempts, storedEvents, chainHead, alerts, starts>>

\* updateLastProcessedBlock throws
UpdateStateFail(l) ==
  /\ OthersSuspended(l)
  /\ pc[l] = "update"
  /\ Catch(l)
  /\ UNCHANGED <<config, running, fromBlock, currentBlock, targetBlock, processedUpTo,
                 toBlock, success, attempts, store, chainHead, alerts, starts>>

(***************************************************************************)
(* stop() and the process                                                 *)
(***************************************************************************)
Stop ==
  /\ AllSuspended
  /\ running' = FALSE
  /\ UNCHANGED <<config, locals, store, chainHead, alerts, starts, failures>>

\* mutant of SaveEventsCall: saveEvents also checkpoints the block of its first event
SaveEventsCallCheckpoints ==
  /\ \E evs \in EventArrays :
       /\ storedEvents' = SaveEventsArray(storedEvents, evs)
       /\ indexerStates' = IF evs = << >>
                             THEN indexerStates
                             ELSE UpdateLastProcessedBlock(evs[1].chainId,
                                                           evs[1].blockNumber)
  /\ UNCHANGED <<config, running, locals, chainHead, alerts, starts, failures>>

\* storage.saveEvents(events) on any array of events, as a caller of the store may
\* pass it: repeated keys, keys already stored, other chains
SaveEventsCall ==
  /\ \E evs \in EventArrays : storedEvents' = SaveEventsArray(storedEvents, evs)
  /\ UNCHANGED <<config, running, locals, indexerStates, chainHead, alerts,
                 starts, failures>>

\* storage.updateLastProcessedBlock(chainId, blockNumber) by any caller of the store
UpdateLastProcessedBlockCall ==
  /\ \E c \in ChainIds, blockNumber \in 0..MaxHead :
       indexerStates' = UpdateLastProcessedBlock(c, blockNumber)
  /\ UNCHANGED <<config, running, locals, storedEvents, chainHead, alerts, starts,
                 failures>>

\* The orchestrator main() creates for another chain over the same EventStorage,
\* seen from the store: it handles its chain block by block from block 0, the
\* block at its watermark again after a restart.
OtherChainBlocks ==
  LET w == GetLastProcessedBlock(OtherChainId)
  IN  IF w = Null THEN {0} ELSE {w, w + 1} \cap (0..MaxHead)

\* its await storage.saveEvents(events)
OtherOrchestratorSaves ==
  /\ AllSuspended
  /\ \E b \in OtherChainBlocks :
       storedEvents' = SaveEvents(storedEvents, FetchResult(OtherChainId, b, b))
  /\ UNCHANGED <<config, running, locals, indexerStates, chainHead, alerts,
                 starts, failures>>

\* its await storage.updateLastProcessedBlock(chainId, toBlock), after the save
OtherOrchestratorCheckpoints ==
  /\ AllSuspended
  /\ \E b \in OtherChainBlocks :
       /\ FetchResult(OtherChainId, b, b) \subseteq storedEvents
       /\ indexerStates' = UpdateLastProcessedBlock(OtherChainId, b)
  /\ UNCHANGED <<config, running, locals, storedEvents, chainHead, alerts, starts,
                 failures>>

\* the process dies at any await and a new one is created with the same configuration:
\* the object's fields and the locals are lost, the store and the log are kept
Crash ==
  /\ \E l \in Loops : pc[l] # "idle"
  /\ running' = FALSE
  /\ pc' = Idle
  /\ fromBlock' = NoBlock
  /\ currentBlock' = NoBlock
  /\ targetBlock' = NoBlock
  /\ processedUpTo' = NoBlock
  /\ toBlock' = NoBlock
  /\ retryCount' = Zero
  /\ success' = NoSuccess
  /\ events' = NoEvents
  /\ attempts' = Zero
  /\ UNCHANGED <<config, store, chainHead, alerts, starts, failures>>

\* main.ts shutdown(signal), the handler of SIGINT and SIGTERM: await disconnectDB(),
\* then process.exit(0).  It calls no orchestrator's stop() and awaits no promise
\* of start(): the process exits with the loops wherever they are suspended, the
\* store and the log are kept.
Shutdown ==
  /\ AllSuspended
  /\ \E l \in Loops : pc[l] # "idle"
  /\ running' = FALSE
  /\ pc' = Idle
  /\ fromBlock' = NoBlock
  /\ currentBlock' = NoBlock
  /\ targetBlock' = NoBlock
  /\ processedUpTo' = NoBlock
  /\ toBlock' = NoBlock
  /\ retryCount' = Zero
  /\ success' = NoSuccess
  /\ events' = NoEvents
  /\ attempts' = Zero
  /\ UNCHANGED <<config, store, chainHead, alerts, starts, failures>>

(***************************************************************************)
(* Addresses: fetchEvents, the schema of FeeCollectedEvent and GET /events *)
(***************************************************************************)
\* A hex string is a sequence of hex characters: a digit, and a letter in both
\* cases.  "g" is a character that is not a hex character.
HexChars == {"1", "a", "A"}
QueryChars == HexChars \cup {"g"}

IsUpper(ch) == ch = "A"
IsLower(ch) == ch = "a"

\* String.prototype.toLowerCase and toUpperCase, on one character and on a string
ToLowerChar(ch) == IF ch = "A" THEN "a" ELSE ch
ToUpperChar(ch) == IF ch = "a" THEN "A" ELSE ch
ToLowerCase(str) == [i \in DOMAIN str |-> ToLowerChar(str[i])]

\* the strings of the length of an address, of a hash (one character), and the
\* values of the integrator query parameter (absent: the empty string)
Addresses == [1..AddrLen -> HexChars]
Hashes == [1..1 -> HexChars \ {"1"}]
Queries == [1..AddrLen -> QueryChars] \cup {<< >>}

\* ethers.utils.getAddress: the address in its checksum casing, a function of
\* the lowercase address that puts each letter in one case.  The hash that
\* decides the case of a letter is stood for by the parity of its position.
ChecksumAddress(str) ==
  [i \in DOMAIN str |-> IF i % 2 = 1 THEN ToUpperChar(ToLowerChar(str[i]))
                                     ELSE ToLowerChar(str[i])]

IsMixedCase(str) ==
  /\ \E i \in DOMAIN str : IsUpper(str[i])
  /\ \E i \in DOMAIN str : IsLower(str[i])

\* ethers.utils.isAddress: hex characters of the length of an address, and when
\* letters of both cases occur the casing must be the checksum casing
IsAddress(str) ==
  /\ str \in Addresses
  /\ IsMixedCase(str) => str = ChecksumAddress(str)

\* the FeesCollected logs a chain can carry, addresses and hash in any casing
RawLogs ==
  [chainId : {ChainId}, blockNumber : {1, 2}, transactionHash : Hashes,
   logIndex : {0, 1}, integratorFee : {0}, token : {<<"1", "a">>, <<"1", "A">>},
   integrator : Addresses]

\* fetchEvents: the event pushed for a parsed log
ParseLog(raw) ==
  [raw EXCEPT !.token = ToLowerCase(raw.token),
              !.integrator = ToLowerCase(raw.integrator),
              !.transactionHash = ToLowerCase(raw.transactionHash)]

\* the setters of the schema (lowercase: true) applied when a document is cast
CastDocument(doc) ==
  [doc EXCEPT !.token = ToLowerCase(doc.token),
              !.integrator = ToLowerCase(doc.integrator),
              !.transactionHash = ToLowerCase(doc.transactionHash)]

\* the status of an error response of GET /events
BadRequest == 400
Ok == 200

\* mutant of GetEvents: the query value is matched as it was given
GetEventsMatchesAsGiven(stored, integratorParam) ==
  IF integratorParam = << >> \/ ~IsAddress(integratorParam)
    THEN [status |-> BadRequest, body |-> {}]
    ELSE [status |-> Ok,
          body |-> { e \in stored : e.integrator = integratorParam }]

\* GET /events?integrator=...: the status and the rows of the response (their
\* order, by blockNumber and logIndex, is a function of the set of rows)
GetEvents(stored, integratorParam) ==
  IF integratorParam = << >> \/ ~IsAddress(integratorParam)
    THEN [status |-> BadRequest, body |-> {}]
    ELSE [status |-> Ok,
          body |-> { e \in stored : e.integrator = ToLowerCase(integratorParam) }]

\* a chunk with one log is fetched and saved: fetchEvents, then saveEvents
IndexLog ==
  /\ \E raw \in RawLogs :
       storedEvents' = SaveEventsArray(storedEvents, <<CastDocument(ParseLog(raw))>>)
  /\ UNCHANGED <<config, running, locals, indexerStates, chainHead, alerts, starts,
                 failures>>

\* a document is given to the model as a caller wrote it
CreateDocument ==
  /\ \E doc \in RawLogs :
       storedEvents' = SaveEventsArray(storedEvents, <<CastDocument(doc)>>)
  /\ UNCHANGED <<config, running, locals, indexerStates, chainHead, alerts, starts,
                 failures>>

(***************************************************************************)
(* Specifications                                                          *)
(***************************************************************************)
Step(l) ==
  \/ ReadWatermark(l)
     \/ ReadWatermarkFail(l)
     \/ LoopCheck(l)
     \/ GetBlockNumber(l)
     \/ GetBlockNumberFail(l)
     \/ Sleep(l)
     \/ ChunkCheck(l)
     \/ RetryCheck(l)
     \/ RetryBackoff(l)
     \/ FetchEvents(l)
     \/ FetchEventsFail(l)
     \/ SaveEventsStep(l)
     \/ SaveEventsFail(l)
     \/ UpdateState(l)
     \/ UpdateStateFail(l)

\* start() by a caller that awaits the promise of the previous start()
StartAwaited ==
  /\ \A m \in Loops : pc[m] \in Terminal
  /\ \/ Start(1)
     \/ StartAlreadyRunning(1)

\* start() by a caller that does not wait: the invocation takes the first free slot
StartAnytime ==
  \E l \in Loops :
    /\ pc[l] \in Terminal
    /\ \A m \in Loops : m < l => pc[m] \notin Terminal
    /\ \/ Start(l)
       \/ StartAlreadyRunning(l)

Next ==
  \/ StartAwaited
  \/ \E l \in Loops : Step(l)
  \/ Stop
  \/ Crash

Spec == Init /\ [][Next]_vars

NextRace ==
  \/ StartAnytime
  \/ \E l \in Loops : Step(l)
  \/ Stop
  \/ Crash

\* one orchestrator object whose caller does not await start(): one retry
\* budget and one chunk size keep the two interleaved loops small
InitRace ==
  /\ Init
  /\ config.maxRetries = MaxRetriesBound
  /\ config.chunkSize = MaxChunkSize
  /\ config.finalityDepth = 0

SpecRace == InitRace /\ [][NextRace]_vars

\* every call the loop awaits (the chain, the store, a timer) completes: an
\* invocation that can take a step eventually takes one
SpecLive == Init /\ [][Next]_vars /\ \A l \in Loops : WF_vars(Step(l))

\* an orchestrator constructed over a store that an earlier process, started at
\* block 0, left behind: no state document, or a watermark with the events up to it
StoredBefore == {Null, 0, 2, 3}

InitResume ==
  /\ config \in Configs
  /\ config.chunkSize = MaxChunkSize
  /\ config.finalityDepth = 0
  /\ config.maxRetries = MaxRetriesBound
  /\ running = FALSE
  /\ pc = Idle
  /\ fromBlock = NoBlock
  /\ currentBlock = NoBlock
  /\ targetBlock = NoBlock
  /\ processedUpTo = NoBlock
  /\ toBlock = NoBlock
  /\ retryCount = Zero
  /\ success = NoSuccess
  /\ events = NoEvents
  /\ attempts = Zero
  /\ \E w \in StoredBefore :
       /\ indexerStates = IF w = Null THEN {} ELSE {IndexerState(config.chainId, w)}
       /\ storedEvents = FetchResult(config.chainId, 0, w)
  /\ chainHead = 0
  /\ alerts = EmptyBag
  /\ starts = 0
  /\ failures = 0

SpecResume == InitResume /\ [][Next]_vars

\* the store alone, under calls of saveEvents and updateLastProcessedBlock
InitStore ==
  /\ Init
  /\ config = [chainId |-> ChainId, startBlock |-> 1, endBlock |-> Undefined,
               chunkSize |-> 1, finalityDepth |-> 0, maxRetries |-> MaxRetriesBound]

NextStore ==
  \/ SaveEventsCall
  \/ UpdateLastProcessedBlockCall

SpecStore == InitStore /\ [][NextStore]_vars

\* a bounded run (endBlock configured) whose awaited calls complete and whose
\* chain-height query does not fail forever
InitBounded == Init /\ config.endBlock # Undefined

SpecBounded ==
  /\ InitBounded
  /\ [][Next]_vars
  /\ \A l \in Loops : WF_vars(Step(l)) /\ SF_vars(GetBlockNumber(l))

\* a run that nothing interrupts, in which one chunk can fail on every attempt: its
\* budget equals the failures of the run, so that the chunks after it succeed; and
\* every awaited call completes
InitSkip ==
  /\ Init
  /\ config.maxRetries = MaxRetriesBound
  /\ MaxRetriesBound = MaxFailures

NextRun ==
  \/ StartAwaited
  \/ \E l \in Loops : Step(l)

SpecSkip == InitSkip /\ [][NextRun]_vars /\ \A l \in Loops : WF_vars(Step(l))

\* the process of main.ts: an orchestrator in continuous mode, started once per
\* process, and the signal handler
InitMain == Init /\ config.endBlock = Undefined

NextMain ==
  \/ StartAwaited
  \/ \E l \in Loops : Step(l)
  \/ Shutdown

SpecMain == InitMain /\ [][NextMain]_vars

\* the event collection as the API reads it, filled by the indexer and by
\* callers of the model
NextApi ==
  \/ IndexLog
  \/ CreateDocument

SpecApi == InitStore /\ [][NextApi]_vars

\* two orchestrators of different chains over one shared store, as main() runs them
InitShared ==
  /\ Init
  /\ config.chunkSize = MaxChunkSize
  /\ config.finalityDepth = 0
  /\ config.maxRetries = MaxRetriesBound

NextShared ==
  \/ Next
  \/ OtherOrchestratorSaves
  \/ OtherOrchestratorCheckpoints

SpecShared == InitShared /\ [][NextShared]_vars

(***************************************************************************)
(* Properties                                                              *)
(***************************************************************************)
Watermark == GetLastProcessedBlock(chain)

\* an invocation is inside an attempt of the chunk [processedUpTo, toBlock]
InAttempt(l) == pc[l] \in {"fetch", "save", "update", "retryBackoff"}

\* the chunk [from, to] was named in a circuit-breaker alert
Alerted(from, to) == BagIn(Alert(from, to, maxRetries), alerts)

\* block b lies in a chunk named in a circuit-breaker alert
InAlertedChunk(b) ==
  \E a \in BagToSet(alerts) : a.from <= b /\ b <= a.to

\* invocation l has its checkpoint acknowledged in this step
Checkpoints(l) == ~success[l] /\ success'[l]

\* invocation l gives up its chunk in this step (the circuit breaker)
Skips(l) == pc[l] = "retry" /\ pc'[l] = "chunk" /\ ~success[l]

\* C1: the watermark is written only by a chunk attempt whose saveEvents has
\* returned: whenever the stored watermark is (re)written, the writer is the
\* attempt of a chunk [from, to], the value is `to`, and every event fetched for
\* [from, to] is already in the store.
C1_CheckpointAfterPersist ==
  [][ (Watermark' # Watermark \/ \E l \in Loops : Checkpoints(l)) =>
        \E l \in Loops :
          /\ pc[l] = "update"
          /\ Watermark' = toBlock[l]
          /\ events[l] = FetchResult(chain, processedUpTo[l], toBlock[l])
          /\ events[l] \subseteq storedEvents ]_vars

\* C1 witness: a chunk with events has been checkpointed and its events are stored
C1_Witness ==
  \E l \in Loops :
    /\ pc[l] = "retry" /\ success[l]
    /\ Watermark = toBlock[l]
    /\ EventsOfBlock(chain, toBlock[l]) # {}
    /\ EventsOfBlock(chain, toBlock[l]) \subseteq storedEvents

\* C2: the stored watermark of every chain never decreases (and once present is
\* never absent again), whatever the cycles, failed attempts, skipped chunks,
\* chain heights and restarts of the chain's single loop.
C2_WatermarkMonotonic ==
  [][ \A c \in ChainIds : GetLastProcessedBlock(c)' >= GetLastProcessedBlock(c) ]_vars

\* C2 witness: after a restart and failed attempts the watermark is written again
C2_Witness ==
  /\ starts = 2
  /\ failures > 0
  /\ \E l \in Loops : pc[l] = "retry" /\ success[l] /\ Watermark = toBlock[l]

\* what one uninterrupted, failure-free run over the blocks from..target stores
RECURSIVE UninterruptedRun(_, _, _, _)
UninterruptedRun(cfg, stored, from, target) ==
  IF from > target
    THEN stored
    ELSE LET to == ChunkEnd(cfg, from, target)
         IN  UninterruptedRun(cfg, SaveEvents(stored, FetchResult(cfg.chainId, from, to)),
                              to + 1, target)

\* a cycle of invocation l has ended with every block up to the watermark handled
CaughtUpTo(l) ==
  /\ pc[l] = "loop"
  /\ Watermark # Null
  /\ fromBlock[l] = Watermark + 1

\* C3: when a cycle has ended at the watermark and no chunk was given up, the
\* events stored are exactly those an uninterrupted run from the start block up
\* to the watermark stores, whatever starts, crashes and restarts came before.
C3_ResumeEquivalence ==
  \A l \in Loops :
    (CaughtUpTo(l) /\ alerts = EmptyBag) =>
      storedEvents = UninterruptedRun(config, {}, config.startBlock, Watermark)

\* C3 witness: the second start has caught up after failed attempts, with events stored
C3_Witness ==
  \E l \in Loops :
    /\ CaughtUpTo(l) /\ alerts = EmptyBag
    /\ starts = 2
    /\ failures > 0
    /\ Watermark > config.startBlock + 1
    /\ storedEvents # {}

\* C4 as claimed: every block from the start block up to the stored watermark has
\* its events in the store.
C4_AllBlocksBelowWatermarkStored ==
  \A b \in config.startBlock..Watermark :
    EventsOfBlock(chain, b) \subseteq storedEvents

\* C4 as amended: every block from the start block up to the stored watermark has
\* its events in the store or lies in a chunk named in a circuit-breaker alert.
C4_BlocksBelowWatermarkStoredOrAlerted ==
  \A b \in config.startBlock..Watermark :
    \/ EventsOfBlock(chain, b) \subseteq storedEvents
    \/ InAlertedChunk(b)

\* C4 witness: the watermark lies above a skipped chunk whose events are missing and
\* above a committed block whose events are stored
C4_Witness ==
  /\ Watermark # Null
  /\ \E b \in config.startBlock..Watermark :
       /\ InAlertedChunk(b)
       /\ ~(EventsOfBlock(chain, b) \subseteq storedEvents)
  /\ \E b \in config.startBlock..Watermark :
       /\ ~InAlertedChunk(b)
       /\ EventsOfBlock(chain, b) # {}

\* invocation l begins an attempt of a chunk that overlaps an alerted chunk
ResumesSkipped(l) ==
  /\ pc[l] = "retry" /\ pc'[l] = "fetch"
  /\ \E b \in processedUpTo[l]..toBlock[l] : InAlertedChunk(b)

\* C5 as claimed: once a chunk [from, to] has been skipped the stored watermark is
\* at least `to`, and no block of a skipped chunk is attempted again, restarts
\* included.
C5_SkipAdvancesWatermark ==
  /\ [](\A a \in BagToSet(alerts) : Watermark >= a.to)
  /\ [][ \A l \in Loops : ~ResumesSkipped(l) ]_vars

\* C6: a chunk is given up after exactly maxRetries calls of fetchEvents, the step
\* logs exactly one alert naming the chunk [from, to] and moves on to to + 1; and
\* when the chunk that follows a skipped chunk is checkpointed the watermark is
\* that chunk's upper bound.
C6_SkipAfterMaxRetries ==
  [][ \A l \in Loops :
        /\ Skips(l) =>
             /\ attempts[l] = maxRetries
             /\ retryCount[l] = maxRetries
             /\ alerts' = alerts (+) SetToBag({Alert(processedUpTo[l], toBlock[l], maxRetries)})
             /\ processedUpTo'[l] = toBlock[l] + 1
             /\ Watermark' = Watermark
        /\ (Checkpoints(l) /\ \E a \in fromBlock[l]..processedUpTo[l] :
                                 Alerted(a, processedUpTo[l] - 1)) =>
             /\ Watermark' = toBlock[l]
             /\ processedUpTo'[l] = toBlock[l] + 1 ]_vars

\* C6 witness: in its first run the loop has skipped [a, b] after maxRetries >= 1
\* failures and has checkpointed the chunk that follows it
C6_Witness ==
  \E l \in Loops :
    /\ pc[l] = "chunk" /\ success[l]
    /\ starts = 1
    /\ maxRetries >= 1
    /\ failures = maxRetries
    /\ \E a \in fromBlock[l]..toBlock[l], b \in fromBlock[l]..toBlock[l] :
         /\ Alerted(a, b)
         /\ CopiesIn(Alert(a, b, maxRetries), alerts) = 1
         /\ toBlock[l] = ChunkEnd(config, b + 1, targetBlock[l])
    /\ Watermark = toBlock[l]

\* C7: a checkpoint acknowledged after k failed attempts of the chunk comes with
\* k < maxRetries, exactly k + 1 calls of fetchEvents, the watermark equal to the
\* chunk's upper bound, and no alert: neither then nor when the chunk is left.
C7_RetryThenSucceed ==
  [][ \A l \in Loops :
        /\ Checkpoints(l) =>
             /\ retryCount[l] < maxRetries
             /\ attempts[l] = retryCount[l] + 1
             /\ Watermark' = toBlock[l]
             /\ alerts' = alerts
        /\ (pc[l] = "retry" /\ success[l]) =>
             /\ alerts' = alerts
             /\ pc'[l] \in {"retry", "chunk", "idle"} ]_vars

\* C7 witness: a chunk has succeeded after at least one failed attempt
C7_Witness ==
  \E l \in Loops :
    /\ pc[l] = "retry" /\ success[l]
    /\ retryCount[l] >= 1
    /\ attempts[l] = retryCount[l] + 1
    /\ Watermark = toBlock[l]

\* C8: the chunks of a cycle are contiguous and ascending from fromBlock, each of
\* length 1..chunkSize with upper bound min(from + chunkSize - 1, targetBlock),
\* and the cycle ends exactly above targetBlock.
C8_ChunkCoverage ==
  \A l \in Loops :
    /\ (InAttempt(l) \/ (pc[l] = "retry" /\ ~success[l])) =>
         /\ fromBlock[l] <= processedUpTo[l]
         /\ processedUpTo[l] <= toBlock[l]
         /\ toBlock[l] <= targetBlock[l]
         /\ toBlock[l] - processedUpTo[l] + 1 <= config.chunkSize
         /\ toBlock[l] = Min(processedUpTo[l] + config.chunkSize - 1, targetBlock[l])
    /\ (pc[l] = "chunk" \/ (pc[l] = "retry" /\ success[l])) =>
         /\ fromBlock[l] <= targetBlock[l]
         /\ IF toBlock[l] = Null
              THEN processedUpTo[l] = fromBlock[l]
              ELSE processedUpTo[l] = toBlock[l] + 1
         /\ processedUpTo[l] <= targetBlock[l] + 1

\* C8 witness: the second chunk of a cycle is shorter than chunkSize
C8_Witness ==
  \E l \in Loops :
    /\ pc[l] = "fetch"
    /\ processedUpTo[l] = fromBlock[l] + config.chunkSize
    /\ toBlock[l] = targetBlock[l]
    /\ toBlock[l] - processedUpTo[l] + 1 < config.chunkSize

\* the target height as the specification words it
NearTip(cappedEnd, cur, finalityDepth) == cur - cappedEnd <= finalityDepth

SpecifiedTarget(endBlock, cur, finalityDepth) ==
  IF endBlock = Undefined
    THEN cur - finalityDepth
    ELSE LET cappedEnd == Min(endBlock, cur)
         IN  IF NearTip(cappedEnd, cur, finalityDepth)
               THEN cur - finalityDepth
               ELSE cappedEnd

\* the configurations of the finality tests
FinalityCase(endBlock) ==
  [chainId |-> ChainId, startBlock |-> 0, endBlock |-> endBlock, chunkSize |-> 10,
   finalityDepth |-> 128, maxRetries |-> Undefined]

\* C9: the target block of every cycle is the one specified for the height read,
\* and for height 1000 and finality depth 128 it is 872 without endBlock, 500 for
\* endBlock 500, 872 for endBlock 950 and 872 for endBlock 5,000,000.
C9_TargetHeight ==
  /\ \A l \in Loops :
       currentBlock[l] # Null =>
         targetBlock[l] =
           SpecifiedTarget(config.endBlock, currentBlock[l], config.finalityDepth)
  /\ TargetBlockOf(FinalityCase(Undefined), 1000) = 872
  /\ TargetBlockOf(FinalityCase(500), 1000) = 500
  /\ TargetBlockOf(FinalityCase(950), 1000) = 872
  /\ TargetBlockOf(FinalityCase(5000000), 1000) = 872

\* C9 witness: with an endBlock near the tip and a finality depth above zero a
\* cycle works towards currentBlock - finalityDepth
C9_Witness ==
  \E l \in Loops :
    /\ pc[l] = "chunk"
    /\ config.endBlock # Undefined
    /\ config.finalityDepth > 0
    /\ NearTip(Min(config.endBlock, currentBlock[l]), currentBlock[l], config.finalityDepth)
    /\ targetBlock[l] = currentBlock[l] - config.finalityDepth
    /\ targetBlock[l] < config.endBlock

\* C10 as claimed: at most one invocation of start() is inside the indexing loop
\* of the orchestrator object at any time.
C10_AtMostOneLoop ==
  Cardinality({ l \in Loops : Active(l) /\ pc[l] # "init" }) <= 1

\* the locals of invocation m are left as they are
LocalsUnchanged(m) ==
  /\ pc'[m] = pc[m]
  /\ fromBlock'[m] = fromBlock[m]
  /\ currentBlock'[m] = currentBlock[m]
  /\ targetBlock'[m] = targetBlock[m]
  /\ processedUpTo'[m] = processedUpTo[m]
  /\ toBlock'[m] = toBlock[m]
  /\ retryCount'[m] = retryCount[m]
  /\ success'[m] = success[m]
  /\ events'[m] = events[m]
  /\ attempts'[m] = attempts[m]

\* a call of start() is rejected as 'Orchestrator already running' in this step
RejectedAlreadyRunning(l) == pc[l] # "alreadyRunning" /\ pc'[l] = "alreadyRunning"

\* C11: a start() called while the orchestrator is running is rejected as
\* 'Orchestrator already running' and changes nothing else: the flag stays set, the
\* running loop keeps its position and its cursor, and the store, the log and the
\* chain are untouched, so the first loop goes on as before.
C11_StartWhileRunningRejected ==
  [][ \A l \in Loops :
        /\ ~(running /\ pc[l] \in Terminal /\ Active(l)')
        /\ RejectedAlreadyRunning(l) =>
             /\ running /\ running'
             /\ \A m \in Loops \ {l} : LocalsUnchanged(m)
             /\ UNCHANGED <<config, store, alerts, chainHead, starts>> ]_vars

\* C11 witness: the second call was rejected while the first loop was running, and
\* the first loop has since completed its bounded run by itself
C11_Witness ==
  /\ pc[2] = "alreadyRunning"
  /\ pc[1] = "done"
  /\ starts = 1
  /\ ~running
  /\ config.endBlock # Undefined
  /\ Watermark = config.endBlock
  /\ FetchResult(chain, config.startBlock, config.endBlock) \subseteq storedEvents

\* stop() has been called on invocation l and l has not yet observed it
StopPending(l) == Active(l) /\ ~running

\* C12: once stop() has been called while start() is executing, start() eventually
\* returns, in continuous mode as in bounded mode, provided every awaited call
\* completes; and a step that clears the flag changes nothing else, so a stop() on an
\* orchestrator that is not running changes nothing at all.
C12_StopResolvesStart ==
  /\ \A l \in Loops : StopPending(l) ~> ~Active(l)
  /\ [][ (~running' /\ pc' = pc) =>
           UNCHANGED <<config, locals, store, chainHead, alerts, starts, failures>> ]_vars

\* C12 witness: a continuous-mode start() has returned, which only stop() brings about
C12_Witness ==
  /\ config.endBlock = Undefined
  /\ pc[1] = "done"
  /\ ~running
  /\ Watermark # Null

\* C13: once stop() has been called the loop sends no new chain-height query; from
\* the poll wait it goes to the loop test and out of start() without a call to the
\* chain or the store; and a fetch, save or checkpoint in flight when stop() is
\* called still completes as it would have.
C13_StopHonouredAtCycleBoundary ==
  [][ \A l \in Loops :
        /\ (StopPending(l) /\ pc'[l] = "height") => pc[l] = "height"
        /\ (StopPending(l) /\ pc[l] \in {"poll", "loop"} /\ pc'[l] # pc[l]) =>
             /\ pc'[l] \in {"loop", "done", "idle"}
             /\ pc[l] = "loop" => pc'[l] # "loop"
             /\ UNCHANGED <<store, chainHead, alerts>>
        /\ (StopPending(l) /\ pc[l] = "fetch") => ENABLED FetchEvents(l)
        /\ (StopPending(l) /\ pc[l] = "save") => ENABLED SaveEventsStep(l)
        /\ (StopPending(l) /\ pc[l] = "update") => ENABLED UpdateState(l)
        /\ (running /\ ~running' /\ pc' = pc) => LocalsUnchanged(l) ]_vars

\* C13 witness: stop() was called while the loop is in its poll wait
C13_Witness ==
  \E l \in Loops :
    /\ StopPending(l)
    /\ pc[l] = "poll"
    /\ fromBlock[l] > targetBlock[l]
    /\ Watermark # Null

\* invocation l ends its bounded run by itself in this step ('Reached end block')
SelfStops(l) == pc[l] = "height" /\ pc'[l] = "done"

\* the height read in this step lies more than finalityDepth above endBlock
Historical == config.endBlock < chainHead' - config.finalityDepth

\* the block a run begins at: the stored watermark, or the start block if none is stored
FirstBlock == IF Watermark # Null THEN Watermark ELSE config.startBlock

\* C14 as claimed: a bounded run always returns, and when it ends by itself with
\* endBlock more than finalityDepth below the height read and no fetch or commit
\* having failed, the stored watermark equals endBlock.
C14_BoundedRunEndsAtEndBlock ==
  /\ \A l \in Loops : Active(l) ~> ~Active(l)
  /\ [][ \A l \in Loops :
           (SelfStops(l) /\ Historical /\ failures = 0) =>
             Watermark' = config.endBlock ]_vars

\* C14 as amended: the same, for a retry budget of at least one attempt and a run
\* that begins (at the start block or at a stored watermark) no higher than endBlock.
C14_BoundedRunEndsAtEndBlockIfAttempted ==
  /\ \A l \in Loops : Active(l) ~> ~Active(l)
  /\ [][ \A l \in Loops :
           (/\ SelfStops(l) /\ Historical /\ failures = 0
            /\ maxRetries >= 1
            /\ FirstBlock <= config.endBlock) =>
             Watermark' = config.endBlock ]_vars

\* C14 witness: a second run, begun from the watermark a first run stored below
\* endBlock, has ended by itself with the watermark at endBlock and every event stored
C14_Witness ==
  /\ pc[1] = "done"
  /\ starts = 2
  /\ failures = 0
  /\ maxRetries >= 1
  /\ config.startBlock <= config.endBlock
  /\ config.endBlock < chainHead - config.finalityDepth
  /\ Watermark = config.endBlock
  /\ FetchResult(chain, config.startBlock, config.endBlock) \subseteq storedEvents

BeforeChunks == {"loop", "height", "poll", "cycleBackoff"}

\* C16: start() takes its first block from the store once, before the first cycle:
\* the stored watermark if there is one (0 included), whatever the start block, and
\* the start block otherwise; the first chunk begins at that block, and afterwards
\* fromBlock only moves to the end of a completed cycle, never to a value read again.
C16_ResumeFromWatermark ==
  [][ \A l \in Loops :
        /\ (pc[l] = "init" /\ pc'[l] = "loop") =>
             /\ Watermark \in Nat => fromBlock'[l] = Watermark
             /\ Watermark = Null => fromBlock'[l] = config.startBlock
        /\ (pc[l] \in BeforeChunks /\ Active(l)') =>
             /\ fromBlock'[l] = fromBlock[l]
             /\ pc'[l] = "chunk" => processedUpTo'[l] = fromBlock[l]
        /\ (Active(l) /\ pc[l] # "init" /\ Active(l)' /\ fromBlock'[l] # fromBlock[l]) =>
             /\ pc[l] = "chunk" /\ pc'[l] = "loop"
             /\ fromBlock'[l] = processedUpTo[l]
             /\ processedUpTo[l] = targetBlock[l] + 1 ]_vars

\* C16 witness: with a watermark of 0 stored and a start block of 3, the first chunk
\* of the run is being fetched from block 0
C16_Witness ==
  \E l \in Loops :
    /\ pc[l] = "fetch"
    /\ starts = 1
    /\ Watermark = 0
    /\ config.startBlock = 3
    /\ fromBlock[l] = 0
    /\ processedUpTo[l] = 0

\* invocation l sends fetchEvents(processedUpTo, toBlock) in this step
BeginsFetch(l) == pc[l] = "retry" /\ pc'[l] = "fetch"

\* C17 as claimed: no fetch is sent for a range that begins at or below the stored
\* watermark, so a run started over a stored watermark begins above it.
C17_NoBlockFetchedTwice ==
  [][ \A l \in Loops :
        BeginsFetch(l) => (Watermark = Null \/ processedUpTo[l] > Watermark) ]_vars

\* C18: whatever saveEvents calls were made, the store holds at most one document
\* per key (chainId, blockNumber, transactionHash, logIndex); saving an event whose
\* key is stored does not throw and leaves the store as it is; and an event whose key
\* differs from every stored key in some component is added as a document of its own.
C18_OneRecordPerKey ==
  /\ \A d, e \in storedEvents : EventKey(d) = EventKey(e) => d = e
  /\ \A evs \in EventArrays : ~SaveEventsThrows(storedEvents, evs)
  /\ \A d \in EventInputs :
       LET after == SaveEventsArray(storedEvents, <<d>>)
       IN  IF \E s \in storedEvents : EventKey(s) = EventKey(d)
             THEN after = storedEvents
             ELSE d \notin storedEvents /\ after = storedEvents \cup {d}

\* C18 witness: every key of the inputs is stored once, after an event was saved
\* again with another value outside the key
C18_Witness ==
  /\ Cardinality(storedEvents) = Cardinality(KeyVariants)
  /\ \A k \in KeyVariants : \E s \in storedEvents : EventKey(s) = EventKey(k)
  /\ BaseEvent \in storedEvents
  /\ [BaseEvent EXCEPT !.blockNumber = 2, !.integratorFee = 1] \in storedEvents

\* the keys of a set of documents
Keys(docs) == { EventKey(d) : d \in docs }

\* saveEvents of invocation l completes in this step without a failure of the database
SavesEvents(l) == pc[l] = "save" /\ pc'[l] \notin {"save", "idle"} /\ failures' = failures

\* C19: a chunk whose events were saved but not checkpointed when the process died is
\* fetched and saved again by the next run; the save of events that are already
\* stored does not fail the attempt, which goes on to its checkpoint, and afterwards
\* every event of the chunk has exactly one stored document.
C19_DuplicatesAbsorbedOnRestart ==
  [][ \A l \in Loops :
        /\ SavesEvents(l) =>
             /\ pc'[l] = "update"
             /\ retryCount'[l] = retryCount[l]
             /\ Keys(storedEvents') = Keys(storedEvents) \cup Keys(events[l])
             /\ \A e \in events[l] :
                  Cardinality({ d \in storedEvents' : EventKey(d) = EventKey(e) }) = 1
        /\ (pc[l] = "init" /\ pc'[l] = "loop") =>
             \A d \in storedEvents :
               (Watermark = Null \/ d.blockNumber > Watermark) =>
                 fromBlock'[l] <= d.blockNumber ]_vars

\* C19 witness: the second run is about to save the events of its first chunk, all of
\* which the first run had saved, without a failure and without a checkpoint
C19_Witness ==
  \E l \in Loops :
    /\ pc[l] = "save"
    /\ starts = 2
    /\ failures = 0
    /\ Watermark = Null
    /\ events[l] # {}
    /\ events[l] \subseteq storedEvents

\* C20 as claimed: every circuit-breaker alert logged carries the chain identifier of
\* its source and the block range [from, to] of the chunk that was given up.
C20_AlertNamesSourceAndRange ==
  \A a \in BagToSet(alerts) :
    /\ "chainId" \in DOMAIN a
    /\ a.chainId = chain
    /\ a.from <= a.to

\* the positions of start() inside the chunk loop of a cycle
InChunkLoop == {"chunk", "retry", "fetch", "save", "update", "retryBackoff"}

\* a call awaited by an attempt of invocation l throws in this step
AttemptFails(l) ==
  /\ pc[l] \in {"fetch", "save", "update"}
  /\ retryCount'[l] = retryCount[l] + 1

\* C21: an error raised in an attempt of a chunk is caught by the retry loop (the
\* attempt is counted and the chunk is retried, or given up with an alert) and never
\* reaches the catch of the cycle, whose state it leaves alone; whether a chunk
\* succeeded or was skipped the next chunk starts right after it, and the cycle
\* ends only beyond its target block; with maxRetries >= 1 no chunk is left unattempted.
C21_ChunkErrorsStayInRetryLoop ==
  [][\A l \in Loops :
       /\ AttemptFails(l) =>
            /\ pc'[l] \in {"retryBackoff", "retry"}
            /\ running' = running
            /\ fromBlock'[l] = fromBlock[l] /\ targetBlock'[l] = targetBlock[l]
            /\ processedUpTo'[l] = processedUpTo[l] /\ toBlock'[l] = toBlock[l]
       /\ pc'[l] = "cycleBackoff" /\ pc[l] # "cycleBackoff" => pc[l] = "height"
       /\ pc[l] \in InChunkLoop /\ pc'[l] \notin InChunkLoop =>
            \/ pc'[l] = "idle"
            \/ pc[l] = "chunk" /\ pc'[l] = "loop" /\ processedUpTo[l] = targetBlock[l] + 1
       /\ pc[l] = "retry" /\ pc'[l] = "chunk" =>
            /\ processedUpTo'[l] = toBlock[l] + 1
            /\ maxRetries >= 1 => attempts[l] >= 1
       /\ pc[l] = "chunk" /\ pc'[l] = "retry" =>
            /\ processedUpTo[l] <= targetBlock[l]
            /\ toBlock'[l] = ChunkEnd(config, processedUpTo[l], targetBlock[l])
     ]_vars

\* the chunk after a skipped chunk of the same cycle is being attempted
C21_Witness ==
  /\ starts = 1 /\ failures >= 1 /\ maxRetries >= 1
  /\ pc[1] = "fetch"
  /\ \E a \in BagToSet(alerts) :
       a.from >= fromBlock[1] /\ a.to = processedUpTo[1] - 1

\* C22: when the chain-height query fails the error is caught: start() does not
\* reject, the running flag, the store and the cursor are left as they are, and
\* after the backoff the loop is back at the top of the cycle with the same cursor.
C22_HeightFailureRetriesCycle ==
  [][\A l \in Loops :
       /\ pc[l] = "height" /\ pc'[l] \notin {"height", "chunk", "poll", "done", "idle"} =>
            /\ pc'[l] = "cycleBackoff"
            /\ running' = running
            /\ store' = store
            /\ alerts' = alerts
            /\ fromBlock'[l] = fromBlock[l]
       /\ pc[l] = "cycleBackoff" /\ pc'[l] # "cycleBackoff" =>
            \/ pc'[l] = "idle"
            \/ /\ pc'[l] = "loop"
               /\ fromBlock'[l] = fromBlock[l]
               /\ store' = store
     ]_vars

\* the height query of a later cycle has failed: the loop waits out the backoff,
\* still running, with the watermark and the cursor it had
C22_Witness ==
  /\ pc[1] = "cycleBackoff"
  /\ running
  /\ Watermark # Null
  /\ fromBlock[1] = Watermark + 1

\* C23: start() rejects only with 'Orchestrator already running': no failure of the
\* chain or of the store, the initial read of the watermark included, makes the
\* promise of start() reject.
C23_StartRejectsOnlyAlreadyRunning == \A l \in Loops : pc[l] # "rejected"

\* the stored events of the orchestrator's own chain
OwnEvents == { e \in storedEvents : e.chainId = chain }

\* C24: over a store shared with the orchestrator of another chain, a watermark
\* write changes the watermark of its own chain only, and the orchestrator ends
\* each chunk and each cycle with the watermark and the events it has when it
\* runs alone: the upper bound of the chunk it checkpointed, and the events of an
\* uninterrupted run up to it.
C24_ChainsIndependent ==
  /\ [][\A c \in ChainIds :
          GetLastProcessedBlock(c)' # GetLastProcessedBlock(c) =>
            /\ \A d \in ChainIds \ {c} :
                 GetLastProcessedBlock(d)' = GetLastProcessedBlock(d)
            /\ IF c = chain
                 THEN \E l \in Loops :
                        /\ pc[l] = "update"
                        /\ GetLastProcessedBlock(c)' = toBlock[l]
                 ELSE locals' = locals /\ OwnEvents' = OwnEvents
      ]_vars
  /\ [](\A l \in Loops :
          /\ pc[l] \in {"retry", "chunk"} /\ success[l] => Watermark = toBlock[l]
          /\ CaughtUpTo(l) /\ alerts = EmptyBag =>
               OwnEvents = UninterruptedRun(config, {}, config.startBlock, Watermark))

\* both orchestrators have checkpointed, each its own block, and the orchestrator
\* of chain 137 has ended a cycle at its watermark
C24_Witness ==
  /\ CaughtUpTo(1)
  /\ alerts = EmptyBag
  /\ GetLastProcessedBlock(OtherChainId) \notin {Null, Watermark}
  /\ \E e \in storedEvents : e.chainId = OtherChainId
  /\ OwnEvents # {}

\* C25: after updateLastProcessedBlock(c, b), getLastProcessedBlock(c) returns b,
\* block 0 included, and what it returns changes by an update for c only; it
\* returns null while no update for c was made; and after any sequence of updates
\* there is at most one state document per chain.
C25_WatermarkUpsert ==
  /\ [][\A c \in ChainIds :
          /\ \A b \in 0..MaxHead :
               indexerStates' = UpdateLastProcessedBlock(c, b) =>
                 GetLastProcessedBlock(c)' = b
          /\ GetLastProcessedBlock(c)' # GetLastProcessedBlock(c) =>
               \E b \in 0..MaxHead : indexerStates' = UpdateLastProcessedBlock(c, b)
      ]_vars
  /\ [](\A c \in ChainIds :
          /\ Cardinality({ s \in indexerStates : s.chainId = c }) <= 1
          /\ GetLastProcessedBlock(c) = Null <=>
               \A s \in indexerStates : s.chainId # c)

\* both chains have a state document, one of them written with block 0 after
\* the other chain's was written
C25_Witness ==
  indexerStates = {IndexerState(ChainId, 0), IndexerState(OtherChainId, MaxHead)}

\* C26: saveEvents leaves every watermark unchanged (the state documents change by
\* updateLastProcessedBlock only, in a step that leaves the events alone), and
\* saveEvents of an empty array changes nothing in the store and does not throw.
C26_SaveEventsFrame ==
  /\ [][indexerStates' # indexerStates =>
          /\ storedEvents' = storedEvents
          /\ \E c \in ChainIds, b \in 0..MaxHead :
               indexerStates' = UpdateLastProcessedBlock(c, b)
      ]_vars
  /\ [](/\ SaveEventsArray(storedEvents, << >>) = storedEvents
        /\ ~SaveEventsThrows(storedEvents, << >>))

\* events of block 2 are stored and the watermark of their chain, written as 0, is 0
C26_Witness ==
  /\ indexerStates = {IndexerState(ChainId, 0)}
  /\ \E e \in storedEvents : e.chainId = ChainId /\ e.blockNumber = 2

\* C27: within one run the chunks are processed in ascending order across all
\* cycles: a chunk is not empty and starts one block after the upper bound of the
\* chunk before it, succeeded or skipped; the first chunk of a cycle starts at the
\* cursor, which the end of a cycle sets one block after its last chunk and which
\* nothing else moves.
C27_ChunksAscendAcrossCycles ==
  [][\A l \in Loops :
       /\ pc[l] = "chunk" /\ pc'[l] = "retry" =>
            /\ processedUpTo[l] =
                 (IF toBlock[l] # Null THEN toBlock[l] + 1 ELSE fromBlock[l])
            /\ toBlock'[l] >= processedUpTo[l]
            /\ processedUpTo'[l] = processedUpTo[l]
       /\ pc[l] = "retry" /\ pc'[l] = "chunk" => processedUpTo'[l] = toBlock[l] + 1
       /\ pc[l] = "chunk" /\ pc'[l] = "loop" =>
            /\ toBlock[l] # Null
            /\ fromBlock'[l] = toBlock[l] + 1
       /\ fromBlock[l] # Null /\ fromBlock'[l] \notin {fromBlock[l], Null} =>
            pc[l] = "chunk" /\ pc'[l] = "loop"
       /\ Active(l) /\ toBlock[l] # Null /\ toBlock'[l] \notin {toBlock[l], Null} =>
            pc[l] = "chunk" /\ pc'[l] = "retry"
     ]_vars

\* the first chunk of a later cycle is attempted, right after the last chunk of
\* the cycle before it, which was skipped
C27_Witness ==
  /\ starts = 1
  /\ pc[1] = "fetch"
  /\ processedUpTo[1] = fromBlock[1]
  /\ \E a \in BagToSet(alerts) : a.to = fromBlock[1] - 1

\* the process exits in this step
ProcessExits == pc # Idle /\ pc' = Idle

\* C28: on graceful shutdown (SIGINT or SIGTERM) every running loop has been
\* stopped and no chunk is left between persist and checkpoint when the store is
\* disconnected and the process exits.
C28_ShutdownStopsLoops ==
  [][ProcessExits =>
        /\ ~running
        /\ \A l \in Loops : pc[l] # "update"
    ]_vars

\* the addresses a client can give: hex strings in any casing
IsLowercase(str) == str = ToLowerCase(str)

StoredLowercase ==
  \A e \in storedEvents :
    IsLowercase(e.token) /\ IsLowercase(e.integrator) /\ IsLowercase(e.transactionHash)

\* C29 as stated: stored events carry lowercase token, integrator and transaction
\* hash, and a lookup with an address in any casing returns exactly the rows of
\* the lookup with the all-lowercase address.
C29_LookupAnyCase ==
  /\ StoredLowercase
  /\ \A q \in Addresses :
       GetEvents(storedEvents, q).body = GetEvents(storedEvents, ToLowerCase(q)).body

\* C29, amended: stored events carry lowercase token, integrator and transaction
\* hash; a lookup with an address the API accepts (letters all of one case, or in
\* the checksum casing) returns exactly the rows of the lookup with the
\* all-lowercase address; any other value is answered with status 400 and no rows.
C29_LookupAcceptedCase ==
  /\ StoredLowercase
  /\ \A q \in Queries :
       IF IsAddress(q)
         THEN /\ IsAddress(ToLowerCase(q))
              /\ GetEvents(storedEvents, q) = GetEvents(storedEvents, ToLowerCase(q))
              /\ GetEvents(storedEvents, q).status = Ok
         ELSE GetEvents(storedEvents, q) = [status |-> BadRequest, body |-> {}]

\* an event whose log carried a mixed-case integrator is stored, and the lookups
\* with the checksum casing and with the upper-case address both return it
C29_Witness ==
  \E q \in Addresses :
    /\ IsMixedCase(q) /\ IsAddress(q)
    /\ GetEvents(storedEvents, q).body # {}
    /\ \E u \in Addresses :
         /\ u # q /\ ~IsMixedCase(u) /\ ~IsLowercase(u) /\ ToLowerCase(u) = ToLowerCase(q)
         /\ GetEvents(storedEvents, u).body = GetEvents(storedEvents, q).body

\* invocation l begins a chunk in this step
BeginsChunk(l) == pc[l] = "chunk" /\ pc'[l] = "retry"

\* C30 as stated: after stop() has been called the loop begins no further chunk
\* of the current cycle.
C30_NoChunkAfterStop ==
  [][\A l \in Loops : StopPending(l) => ~BeginsChunk(l)]_vars

\* C30, amended: after stop() has been called the cycle in progress is completed:
\* while blocks up to its target remain the next chunk is begun as without the
\* stop, a failed attempt is retried as without the stop, the target is not
\* moved, and at the top of the next cycle start() returns.
C30_StopAfterCurrentCycle ==
  [][\A l \in Loops :
       StopPending(l) =>
         /\ pc[l] = "chunk" /\ pc'[l] \notin {"chunk", "idle"} =>
              /\ BeginsChunk(l) <=> processedUpTo[l] <= targetBlock[l]
              /\ BeginsChunk(l) =>
                   toBlock'[l] = ChunkEnd(config, processedUpTo[l], targetBlock[l])
              /\ ~BeginsChunk(l) => pc'[l] = "loop"
         /\ pc[l] = "retry" /\ pc'[l] \notin {"retry", "idle"} =>
              (pc'[l] = "fetch") <=> (retryCount[l] < maxRetries /\ ~success[l])
         /\ targetBlock[l] # Null => targetBlock'[l] \in {targetBlock[l], Null}
         /\ pc[l] = "loop" /\ pc'[l] # "loop" => pc'[l] \in {"done", "idle"}
    ]_vars

\* a chunk that is not the first of its cycle has been begun after stop() was called
C30_Witness ==
  /\ StopPending(1)
  /\ pc[1] = "retry"
  /\ attempts[1] = 0 /\ retryCount[1] = 0 /\ ~success[1]
  /\ processedUpTo[1] > fromBlock[1]
  /\ maxRetries >= 1

\* C31: an attempt of a chunk that fails, in fetchEvents, saveEvents or
\* updateLastProcessedBlock, leaves the stored watermark as it was; the watermark
\* changes only in the step that ends an attempt whose fetch, save and update all
\* returned, and it becomes the upper bound of that attempt's chunk.
C31_FailedAttemptKeepsWatermark ==
  [][\A l \in Loops :
       /\ AttemptFails(l) =>
            /\ indexerStates' = indexerStates
            /\ ~success'[l]
            /\ processedUpTo'[l] = processedUpTo[l]
       /\ Active(l) /\ Watermark' # Watermark =>
            /\ pc[l] = "update" /\ pc'[l] = "retry"
            /\ retryCount'[l] = retryCount[l]
            /\ attempts[l] = retryCount[l] + 1
            /\ success'[l]
            /\ Watermark' = toBlock[l]
     ]_vars

\* a chunk with a failed attempt has been checkpointed by a later attempt
C31_Witness ==
  /\ pc[1] = "retry" /\ success[1]
  /\ retryCount[1] >= 1
  /\ attempts[1] = retryCount[1] + 1
  /\ Watermark = toBlock[1]
  /\ processedUpTo[1] = toBlock[1] + 1
  /\ starts = 1

\* the retry budget as the configuration gives it
ConfiguredBudget ==
  IF config.maxRetries = Undefined THEN DefaultMaxRetries ELSE config.maxRetries

\* an attempt of invocation l ends in the catch in this step
AttemptCaught(l) ==
  /\ pc[l] \in {"fetch", "save", "update"}
  /\ pc'[l] \in {"retry", "retryBackoff"}
  /\ ~success'[l]

\* C32: for every chunk the number of attempts never exceeds maxRetries, 10 when
\* it is not configured; an error of fetchEvents, of saveEvents and of
\* updateLastProcessedBlock each adds one to the failure count; an attempt is
\* begun only while the count is below the budget; and the count and the
\* attempts start from zero for each new chunk.
C32_RetryBudget ==
  /\ [](\A l \in Loops :
          /\ attempts[l] <= ConfiguredBudget
          /\ retryCount[l] <= ConfiguredBudget
          /\ retryCount[l] <= attempts[l] + 1)
  /\ [][\A l \in Loops :
          /\ AttemptCaught(l) => retryCount'[l] = retryCount[l] + 1
          /\ pc[l] = "retry" /\ pc'[l] = "fetch" => retryCount[l] < ConfiguredBudget
          /\ pc[l] = "chunk" /\ pc'[l] = "retry" =>
               retryCount'[l] = 0 /\ attempts'[l] = 0
      ]_vars

\* with maxRetries not configured a chunk has been given up after 10 attempts that
\* failed, and the next chunk starts its count at zero
C32_Witness ==
  /\ config.maxRetries = Undefined
  /\ pc[1] = "retry"
  /\ retryCount[1] = 0 /\ attempts[1] = 0
  /\ \E a \in BagToSet(alerts) :
       a.to = processedUpTo[1] - 1 /\ a.attempts = DefaultMaxRetries
  /\ failures = DefaultMaxRetries

\* C33: a failed attempt is followed by one backoff wait exactly when the budget
\* is not exhausted by it, the wait is entered from a failed attempt only and is
\* followed by the next attempt of the same chunk, and the attempt that exhausts
\* the budget goes to the circuit breaker without a wait: k failed attempts of a
\* chunk incur min(k, maxRetries - 1) waits.
C33_OneBackoffBetweenAttempts ==
  /\ [](\A l \in Loops :
          pc[l] = "retryBackoff" =>
            /\ ~success[l]
            /\ 1 <= retryCount[l] /\ retryCount[l] <= maxRetries - 1)
  /\ [][\A l \in Loops :
          /\ AttemptCaught(l) =>
               (pc'[l] = "retryBackoff") <=> (retryCount[l] + 1 < maxRetries)
          /\ pc'[l] = "retryBackoff" /\ pc[l] # "retryBackoff" => AttemptCaught(l)
          /\ pc[l] = "retryBackoff" /\ pc'[l] \notin {"retryBackoff", "idle"} =>
               /\ pc'[l] = "retry"
               /\ retryCount'[l] = retryCount[l]
               /\ toBlock'[l] = toBlock[l] /\ processedUpTo'[l] = processedUpTo[l]
          /\ pc[l] = "retry" /\ pc'[l] = "chunk" /\ ~success[l] =>
               retryCount[l] = maxRetries
      ]_vars

\* the first of two allowed attempts has failed and the loop waits before the second
C33_Witness ==
  /\ maxRetries = MaxRetriesBound
  /\ pc[1] = "retryBackoff"
  /\ retryCount[1] = MaxRetriesBound - 1
  /\ attempts[1] = retryCount[1]

\* the chunk ending at block b was given up after failing on every attempt, and
\* blocks after b are within the target of the height last read
SkippedWithLaterBlocks(b) ==
  /\ \E a \in BagToSet(alerts) : a.to = b /\ a.attempts = maxRetries
  /\ b < TargetBlockOf(config, chainHead)

\* invocation l has just given up the chunk ending at b, not the last of its cycle
JustSkipped(l, b) ==
  /\ pc[l] = "chunk" /\ ~success[l]
  /\ toBlock[l] = b /\ processedUpTo[l] = b + 1
  /\ b < targetBlock[l]

\* C34: when a chunk has failed on every attempt and the chunks after it can
\* succeed, the chunk after it is eventually attempted and the stored watermark
\* eventually passes the skipped chunk: a chunk that always fails blocks nothing.
C34_SkippedChunkDoesNotBlock ==
  \A b \in 0..MaxHead :
    /\ \A l \in Loops :
         JustSkipped(l, b) ~> (pc[l] = "fetch" /\ processedUpTo[l] = b + 1)
    /\ SkippedWithLaterBlocks(b) ~> (Watermark > b)

\* the chunk after a chunk that failed on every attempt has been checkpointed
C34_Witness ==
  \E a \in BagToSet(alerts) :
    /\ a.attempts = maxRetries /\ maxRetries >= 1
    /\ failures = maxRetries
    /\ pc[1] = "retry" /\ success[1]
    /\ processedUpTo[1] > a.to + 1
    /\ a.from >= fromBlock[1]
    /\ Watermark = toBlock[1]

\* C35: the loop writes to the store only inside the commit of a chunk attempt:
\* the events change in the step of saveEvents only and the state documents in the
\* step of updateLastProcessedBlock only; the read of the watermark, the loop
\* tests, the height query, the planning of the target, the poll wait, the
\* backoffs, the fetch and the skip of an exhausted chunk leave the store as it is.
C35_StoreWrittenOnlyInCommit ==
  [][/\ storedEvents' # storedEvents =>
          \E l \in Loops : pc[l] = "save" /\ pc'[l] # "save"
     /\ indexerStates' # indexerStates =>
          \E l \in Loops : pc[l] = "update" /\ pc'[l] = "retry" /\ success'[l]
     /\ \A l \in Loops :
          pc[l] \notin {"save", "update"} /\ pc'[l] # pc[l] => store' = store
    ]_vars

\* a chunk has been given up after a height query, a planned target and a backoff,
\* and the store is as the last commit left it
C35_Witness ==
  /\ pc[1] = "chunk" /\ ~success[1]
  /\ toBlock[1] # Null /\ processedUpTo[1] = toBlock[1] + 1
  /\ maxRetries = MaxRetriesBound
  /\ Watermark # Null /\ Watermark < toBlock[1]
  /\ starts = 1

\* C36: in every mode no chunk's upper bound exceeds currentBlock - finalityDepth
\* of the height read at the start of its cycle, and with an endBlock the target of
\* the cycle is min(endBlock, currentBlock - finalityDepth), for every endBlock
\* below, at and above the height.
C36_FinalityBound ==
  /\ \A l \in Loops :
       currentBlock[l] # Null =>
         /\ targetBlock[l] <= currentBlock[l] - config.finalityDepth
         /\ toBlock[l] # Null => toBlock[l] <= currentBlock[l] - config.finalityDepth
         /\ config.endBlock # Undefined =>
              targetBlock[l] =
                Min(config.endBlock, currentBlock[l] - config.finalityDepth)
  /\ \A e \in 0..(MaxHead + 1), cur \in 0..MaxHead :
       TargetBlockOf([config EXCEPT !.endBlock = e], cur) =
         Min(e, cur - config.finalityDepth)

\* a bounded run whose endBlock is within finalityDepth of the height works on a
\* chunk that ends below endBlock, at currentBlock - finalityDepth
C36_Witness ==
  /\ config.endBlock # Undefined
  /\ config.finalityDepth > 0
  /\ pc[1] = "fetch"
  /\ currentBlock[1] = config.endBlock
  /\ toBlock[1] = currentBlock[1] - config.finalityDepth

\* C37: with an endBlock configured no chunk that is fetched ends above endBlock
\* and no watermark above endBlock is written, whatever the height of the chain
\* and whatever watermark the store held when the run began.
C37_BoundedRunStaysBelowEndBlock ==
  [][config.endBlock # Undefined =>
       /\ \A l \in Loops :
            pc'[l] \in {"fetch", "save", "update"} =>
              /\ processedUpTo'[l] <= toBlock'[l]
              /\ toBlock'[l] <= config.endBlock
       /\ \A l \in Loops :
            pc[l] = "fetch" /\ pc'[l] = "save" =>
              \A e \in events'[l] : e.blockNumber <= config.endBlock
       /\ indexerStates' # indexerStates => Watermark' <= config.endBlock
    ]_vars

\* the chain is higher than endBlock and the last chunk of a bounded run, begun
\* from a stored watermark, ends at endBlock
C37_Witness ==
  /\ config.endBlock # Undefined
  /\ chainHead > config.endBlock + config.finalityDepth
  /\ pc[1] = "update"
  /\ toBlock[1] = config.endBlock
  /\ Watermark # Null /\ Watermark < config.endBlock

\* the blocks the watermark has not yet covered: from the cursor a run begins at
\* when no watermark is stored, else from the block above the stored watermark
Uncovered == IF Watermark = Null THEN config.startBlock ELSE Watermark + 1

\* C38: the watermark never passes a block silently: every step that writes the
\* watermark is a commit of some invocation's chunk, and every block the write
\* newly places at or below the watermark lies in that chunk, with its events
\* saved, or in a chunk named in a circuit-breaker alert.
C38_WatermarkNeverPassesSilently ==
  [][indexerStates' # indexerStates =>
       \E l \in Loops :
         /\ Checkpoints(l)
         /\ \A b \in Uncovered..Watermark' :
              \/ /\ processedUpTo[l] <= b /\ b <= toBlock[l]
                 /\ EventsOfBlock(chain, b) \subseteq storedEvents'
              \/ InAlertedChunk(b)
    ]_vars

\* C38 witness: a commit has just moved the watermark over a skipped chunk whose
\* events are missing from the store
C38_Witness ==
  /\ pc[1] = "retry" /\ success[1]
  /\ Watermark = toBlock[1]
  /\ \E a \in BagToSet(alerts) :
       /\ a.to < toBlock[1]
       /\ config.startBlock <= a.from
       /\ ~(FetchResult(chain, a.from, a.to) \subseteq storedEvents)

\* C39: the running flag is set only while an invocation of start() is executing,
\* so that after a start() rejected by a failed read of the watermark a later
\* start() is not rejected as 'Orchestrator already running'.
C39_RunningOnlyWhileExecuting ==
  /\ [](running => \E l \in Loops : Active(l))
  /\ [][\A l \in Loops :
          RejectedAlreadyRunning(l) => \E m \in Loops : Active(m)]_vars

\* C40: a chunk is given up with a circuit-breaker alert only after at least one
\* attempt of it was made and has failed, whatever the retry budget, a budget of
\* zero included.
C40_SkippedOnlyAfterFailedAttempt ==
  [][\A l \in Loops :
       Skips(l) => attempts[l] >= 1 /\ retryCount[l] >= 1]_vars

====
